---- MODULE Spec2Model ----
(***************************************************************************)
(* A model of the AI-assistant pipeline: CommandProcessor (understand,     *)
(* detect_tasks, learn_pattern), TaskExecutor (execute_task, the handlers) *)
(* and AIBrain (wake_up, sleep, process_command, plan_execution,           *)
(* execute_tasks, update_brain_state, learn_from_interaction).             *)
(*                                                                         *)
(* Commands are real strings; the regular expressions of the command       *)
(* processor are evaluated character by character.                         *)
(***************************************************************************)
EXTENDS Integers, Sequences, FiniteSets, TLC

(***************************************************************************)
(* Bounds of the model                                                     *)
(***************************************************************************)
\* number of process_command / execute_tasks calls in one behaviour
MaxCalls == 2
\* longest list of arbitrary tasks a caller plans and executes directly
MaxMixedLen == 1
\* length of the lists of identical non-parallel tasks a caller plans and
\* executes directly (more than max_concurrent_tasks)
LongPlanLen == 6

\* the commands the user types
Commands ==
    {"create a new file called demo.txt",
     "search for machine learning basics",
     "",
     "hello world",
     "run python program",
     "create a new file",
     "open demo.txt send email schedule schedule schedule schedule"}

(***************************************************************************)
(* Characters and strings                                                  *)
(***************************************************************************)
LowerLetters ==
    {"a","b","c","d","e","f","g","h","i","j","k","l","m",
     "n","o","p","q","r","s","t","u","v","w","x","y","z"}

Digits == {"0","1","2","3","4","5","6","7","8","9"}

\* the characters the regular expression class \w matches
WordChars == LowerLetters \cup Digits \cup {"_"} \cup
    {"A","B","C","D","E","F","G","H","I","J","K","L","M",
     "N","O","P","Q","R","S","T","U","V","W","X","Y","Z"}

\* the characters the class \s (and str.split, str.strip) treat as blank
SpaceChars == {" "}

\* s[i-1:i]: the character at position i, empty outside the string
CharAt(s, i) == IF i < 1 \/ i > Len(s) THEN "" ELSE SubSeq(s, i, i)

\* str.lower() on one character
LowerChar(c) ==
    CASE c = "A" -> "a" [] c = "B" -> "b" [] c = "C" -> "c" [] c = "D" -> "d"
      [] c = "E" -> "e" [] c = "F" -> "f" [] c = "G" -> "g" [] c = "H" -> "h"
      [] c = "I" -> "i" [] c = "J" -> "j" [] c = "K" -> "k" [] c = "L" -> "l"
      [] c = "M" -> "m" [] c = "N" -> "n" [] c = "O" -> "o" [] c = "P" -> "p"
      [] c = "Q" -> "q" [] c = "R" -> "r" [] c = "S" -> "s" [] c = "T" -> "t"
      [] c = "U" -> "u" [] c = "V" -> "v" [] c = "W" -> "w" [] c = "X" -> "x"
      [] c = "Y" -> "y" [] c = "Z" -> "z" [] OTHER -> c

RECURSIVE LowerFrom(_, _)
LowerFrom(s, i) ==
    IF i > Len(s) THEN "" ELSE LowerChar(CharAt(s, i)) \o LowerFrom(s, i + 1)

\* str.lower()
Lower(s) == LowerFrom(s, 1)

RECURSIVE FirstNonSpace(_, _)
FirstNonSpace(s, i) ==
    IF i > Len(s) \/ CharAt(s, i) \notin SpaceChars THEN i
    ELSE FirstNonSpace(s, i + 1)

RECURSIVE LastNonSpace(_, _)
LastNonSpace(s, i) ==
    IF i < 1 \/ CharAt(s, i) \notin SpaceChars THEN i
    ELSE LastNonSpace(s, i - 1)

\* str.strip()
Strip(s) == SubSeq(s, FirstNonSpace(s, 1), LastNonSpace(s, Len(s)))

\* end of the run of non-blank characters that starts at i
RECURSIVE TokenEnd(_, _)
TokenEnd(s, i) ==
    IF i + 1 > Len(s) \/ CharAt(s, i + 1) \in SpaceChars THEN i
    ELSE TokenEnd(s, i + 1)

\* str.split(): the maximal runs of non-blank characters, in order
RECURSIVE SplitFrom(_, _)
SplitFrom(s, i) ==
    IF i > Len(s) THEN << >>
    ELSE IF CharAt(s, i) \in SpaceChars THEN SplitFrom(s, i + 1)
    ELSE LET e == TokenEnd(s, i)
         IN  << SubSeq(s, i, e) >> \o SplitFrom(s, e + 1)

Split(s) == SplitFrom(s, 1)

\* sep.join(words)
RECURSIVE Join(_, _)
Join(words, sep) ==
    IF Len(words) = 0 THEN ""
    ELSE IF Len(words) = 1 THEN words[1]
    ELSE words[1] \o sep \o Join(Tail(words), sep)

\* str.replace(' ', '+')
RECURSIVE ReplaceSpaceFrom(_, _)
ReplaceSpaceFrom(s, i) ==
    IF i > Len(s) THEN ""
    ELSE (IF CharAt(s, i) = " " THEN "+" ELSE CharAt(s, i))
         \o ReplaceSpaceFrom(s, i + 1)

\* the text p occurs in s at position i
OccursAt(s, p, i) ==
    /\ i >= 1
    /\ i + Len(p) - 1 <= Len(s)
    /\ SubSeq(s, i, i + Len(p) - 1) = p

\* Python's  p in s
Contains(s, p) == \E i \in 1..(Len(s) + 1) : OccursAt(s, p, i)

IsWordAt(s, i) == i >= 1 /\ i <= Len(s) /\ CharAt(s, i) \in WordChars

\* the regular expression anchor \b holds between positions i-1 and i
Boundary(s, i) == IsWordAt(s, i - 1) # IsWordAt(s, i)

\* \b(p)\b matches at position i
WordOccursAt(s, p, i) ==
    /\ OccursAt(s, p, i)
    /\ Boundary(s, i)
    /\ Boundary(s, i + Len(p))

(***************************************************************************)
(* CommandProcessor: the intent rules                                      *)
(***************************************************************************)
\* confidences are counted in sixtieths: 60 is 1.0, 6 is 0.1, 3 is 0.05
ConfOne == 60

\* a rule  \b(v1|v2|..)\b.*\b(o1|o2|..)\b
Pair(re, verbs, objs) == [re |-> re, kind |-> "pair", verbs |-> verbs, objs |-> objs]
\* a rule  \b(v1|v2|..)\b.*\b(\.\w+)\b
Ext(re, verbs) == [re |-> re, kind |-> "ext", verbs |-> verbs, objs |-> << >>]
\* a rule  \b(v1|v2|..)\b
Single(re, verbs) == [re |-> re, kind |-> "single", verbs |-> verbs, objs |-> << >>]

intent_patterns == <<
  [type |-> "file_operations", patterns |-> <<
     Pair("\\b(create|make|new|open|read|write|save|delete|remove|copy|move|rename)\\b.*\\b(file|document|folder|directory)\\b",
          <<"create","make","new","open","read","write","save","delete","remove","copy","move","rename">>,
          <<"file","document","folder","directory">>),
     Ext("\\b(create|make|new)\\b.*\\b(\\.\\w+)\\b", <<"create","make","new">>),
     Ext("\\b(open|read|view)\\b.*\\b(\\.\\w+)\\b", <<"open","read","view">>) >>],
  [type |-> "web_operations", patterns |-> <<
     Pair("\\b(search|find|look up|google)\\b.*\\b(for|about)\\b",
          <<"search","find","look up","google">>, <<"for","about">>),
     Pair("\\b(open|go to|visit|navigate)\\b.*\\b(website|url|link|page)\\b",
          <<"open","go to","visit","navigate">>, <<"website","url","link","page">>),
     Pair("\\b(download|get|fetch)\\b.*\\b(from|from the web)\\b",
          <<"download","get","fetch">>, <<"from","from the web">>) >>],
  [type |-> "system_operations", patterns |-> <<
     Pair("\\b(install|uninstall|update|upgrade)\\b.*\\b(package|software|program)\\b",
          <<"install","uninstall","update","upgrade">>, <<"package","software","program">>),
     Pair("\\b(run|execute|start|launch)\\b.*\\b(program|application|script)\\b",
          <<"run","execute","start","launch">>, <<"program","application","script">>),
     Pair("\\b(check|monitor|status)\\b.*\\b(system|computer|memory|cpu)\\b",
          <<"check","monitor","status">>, <<"system","computer","memory","cpu">>) >>],
  [type |-> "data_operations", patterns |-> <<
     Pair("\\b(analyze|process|calculate|compute)\\b.*\\b(data|information|numbers)\\b",
          <<"analyze","process","calculate","compute">>, <<"data","information","numbers">>),
     Pair("\\b(convert|transform|format)\\b.*\\b(data|file|format)\\b",
          <<"convert","transform","format">>, <<"data","file","format">>),
     Pair("\\b(backup|export|import)\\b.*\\b(data|files|database)\\b",
          <<"backup","export","import">>, <<"data","files","database">>) >>],
  [type |-> "communication", patterns |-> <<
     Pair("\\b(send|write|compose)\\b.*\\b(email|message|text)\\b",
          <<"send","write","compose">>, <<"email","message","text">>),
     Pair("\\b(call|phone|dial)\\b.*\\b(someone|person|number)\\b",
          <<"call","phone","dial">>, <<"someone","person","number">>),
     Single("\\b(meeting|schedule|appointment)\\b",
          <<"meeting","schedule","appointment">>) >>],
  [type |-> "information_gathering", patterns |-> <<
     Pair("\\b(what|how|when|where|why|who)\\b.*\\b(is|are|was|were|will|can)\\b",
          <<"what","how","when","where","why","who">>, <<"is","are","was","were","will","can">>),
     Single("\\b(tell me|explain|describe|show me)\\b",
          <<"tell me","explain","describe","show me">>),
     Single("\\b(find out|discover|learn about)\\b",
          <<"find out","discover","learn about">>) >>],
  [type |-> "automation", patterns |-> <<
     Single("\\b(automate|schedule|repeat|loop)\\b",
          <<"automate","schedule","repeat","loop">>),
     Pair("\\b(set up|configure|setup)\\b.*\\b(automation|task|job)\\b",
          <<"set up","configure","setup">>, <<"automation","task","job">>),
     Pair("\\b(remind|alert|notify)\\b.*\\b(when|if|about)\\b",
          <<"remind","alert","notify">>, <<"when","if","about">>) >> ] >>

\* the positions right after an occurrence of one of the alternatives
AltEnds(s, alts) ==
    { e \in 1..(Len(s) + 1) :
        \E i \in 1..Len(s), k \in 1..Len(alts) :
            WordOccursAt(s, alts[k], i) /\ e = i + Len(alts[k]) }

\* the positions where an occurrence of one of the alternatives starts
AltStarts(s, alts) ==
    { i \in 1..Len(s) : \E k \in 1..Len(alts) : WordOccursAt(s, alts[k], i) }

\* the positions where \b(\.\w+)\b matches
ExtStarts(s) ==
    { i \in 1..Len(s) : CharAt(s, i) = "." /\ Boundary(s, i) /\ IsWordAt(s, i + 1) }

\* the leftmost-first alternative of a single-group rule that matches at i,
\* 0 if none does
FirstAltAt(s, alts, i) ==
    LET ks == { k \in 1..Len(alts) : WordOccursAt(s, alts[k], i) }
    IN  IF ks = {} THEN 0 ELSE CHOOSE k \in ks : \A m \in ks : k <= m

\* the number of non-overlapping matches re.findall reports for \b(a1|a2|..)\b
RECURSIVE CountSingle(_, _, _)
CountSingle(s, alts, i) ==
    IF i > Len(s) THEN 0
    ELSE LET k == FirstAltAt(s, alts, i)
         IN  IF k = 0 THEN CountSingle(s, alts, i + 1)
             ELSE 1 + CountSingle(s, alts, i + Len(alts[k]))

\* len(re.findall(pattern, command)): a rule with a greedy .* between its two
\* groups matches at most once in a one-line command
CountMatches(s, rule) ==
    CASE rule.kind = "single" -> CountSingle(s, rule.verbs, 1)
      [] rule.kind = "pair" ->
            IF \E e \in AltEnds(s, rule.verbs), j \in AltStarts(s, rule.objs) : j >= e
            THEN 1 ELSE 0
      [] rule.kind = "ext" ->
            IF \E e \in AltEnds(s, rule.verbs), j \in ExtStarts(s) : j >= e
            THEN 1 ELSE 0

\* the intents of one category, one per rule that matched
RuleIntents(s, cat) ==
    LET ps == cat.patterns
        hit(k) == CountMatches(s, ps[k]) > 0
        one(k) == [type |-> cat.type, pattern |-> ps[k].re,
                   confidence |-> (CountMatches(s, ps[k]) * ConfOne) \div Len(ps),
                   learned |-> FALSE]
    IN  (IF hit(1) THEN << one(1) >> ELSE << >>) \o
        (IF hit(2) THEN << one(2) >> ELSE << >>) \o
        (IF hit(3) THEN << one(3) >> ELSE << >>)

RECURSIVE AllRuleIntents(_, _)
AllRuleIntents(s, c) ==
    IF c > Len(intent_patterns) THEN << >>
    ELSE RuleIntents(s, intent_patterns[c]) \o AllRuleIntents(s, c + 1)

\* the intents contributed by the learned-pattern table, in table order
RECURSIVE LearnedIntents(_, _, _)
LearnedIntents(s, learned, k) ==
    IF k > Len(learned) THEN << >>
    ELSE (IF Contains(Lower(s), Lower(learned[k].key))
          THEN << [type |-> learned[k].type, pattern |-> learned[k].key,
                   confidence |-> learned[k].confidence, learned |-> TRUE] >>
          ELSE << >>)
         \o LearnedIntents(s, learned, k + 1)

\* the normalised texts of the commands, and what the rules yield for them
\* (evaluated once; the rules do not depend on the state)
NormalizedCommands == { Strip(Lower(c)) : c \in Commands }
RuleIntentsTable == [s \in NormalizedCommands |-> AllRuleIntents(s, 1)]

\* a _detect_intents that consults the rules only
DetectIntentsRulesOnly(s, learned) ==
    IF s \in DOMAIN RuleIntentsTable THEN RuleIntentsTable[s] ELSE AllRuleIntents(s, 1)

\* CommandProcessor._detect_intents
DetectIntents(s, learned) ==
    (IF s \in DOMAIN RuleIntentsTable THEN RuleIntentsTable[s] ELSE AllRuleIntents(s, 1))
    \o LearnedIntents(s, learned, 1)

(***************************************************************************)
(* CommandProcessor: entities                                              *)
(***************************************************************************)
\* end of the run of \w characters that starts at i
RECURSIVE WordEnd(_, _)
WordEnd(s, i) == IF IsWordAt(s, i + 1) THEN WordEnd(s, i + 1) ELSE i

\* re.findall(r'\b\w+\.\w+\b', command), scanning from position i
RECURSIVE FindFiles(_, _)
FindFiles(s, i) ==
    IF i > Len(s) THEN << >>
    ELSE IF IsWordAt(s, i) /\ Boundary(s, i)
              /\ CharAt(s, WordEnd(s, i) + 1) = "."
              /\ IsWordAt(s, WordEnd(s, i) + 2)
         THEN LET e == WordEnd(s, WordEnd(s, i) + 2)
              IN  << SubSeq(s, i, e) >> \o FindFiles(s, e + 1)
         ELSE FindFiles(s, i + 1)

\* the length of 'http://' or 'https://' if it starts at i, else 0
SchemeAt(s, i) ==
    IF OccursAt(s, "http://", i) THEN 7
    ELSE IF OccursAt(s, "https://", i) THEN 8 ELSE 0

\* re.findall(r'https?://[^\s]+', command), scanning from position i
RECURSIVE FindUrls(_, _)
FindUrls(s, i) ==
    IF i > Len(s) THEN << >>
    ELSE LET n == SchemeAt(s, i)
         IN  IF n > 0 /\ i + n <= Len(s) /\ CharAt(s, i + n) \notin SpaceChars
             THEN << SubSeq(s, i, TokenEnd(s, i + n)) >>
                  \o FindUrls(s, TokenEnd(s, i + n) + 1)
             ELSE FindUrls(s, i + 1)

program_names == <<"python", "java", "node", "npm", "pip", "git", "docker">>

\* re.findall(r'\b(python|java|node|npm|pip|git|docker)\b', command)
RECURSIVE FindPrograms(_, _)
FindPrograms(s, i) ==
    IF i > Len(s) THEN << >>
    ELSE LET k == FirstAltAt(s, program_names, i)
         IN  IF k = 0 THEN FindPrograms(s, i + 1)
             ELSE << program_names[k] >> \o FindPrograms(s, i + Len(program_names[k]))

RECURSIVE DigitsEnd(_, _)
DigitsEnd(s, i) == IF CharAt(s, i + 1) \in Digits THEN DigitsEnd(s, i + 1) ELSE i

\* re.findall(r'\b\d+\b', command), scanning from position i
RECURSIVE FindNumbers(_, _)
FindNumbers(s, i) ==
    IF i > Len(s) THEN << >>
    ELSE IF CharAt(s, i) \in Digits /\ Boundary(s, i)
              /\ Boundary(s, DigitsEnd(s, i) + 1)
         THEN << SubSeq(s, i, DigitsEnd(s, i)) >> \o FindNumbers(s, DigitsEnd(s, i) + 1)
         ELSE FindNumbers(s, i + 1)

time_words == <<"today", "tomorrow", "next week">>
time_units == <<"hours", "days", "weeks">>

\* the unit of an 'in N <unit>' phrase that starts at i (0 if none starts there)
InUnitAt(s, i) ==
    IF OccursAt(s, "in ", i) /\ Boundary(s, i) /\ CharAt(s, i + 3) \in Digits
    THEN LET e  == DigitsEnd(s, i + 3)
             ks == { k \in 1..Len(time_units) :
                        /\ CharAt(s, e + 1) = " "
                        /\ OccursAt(s, time_units[k], e + 2)
                        /\ Boundary(s, e + 2 + Len(time_units[k])) }
         IN  IF ks = {} THEN 0 ELSE CHOOSE k \in ks : TRUE
    ELSE 0

\* re.findall(r'\b(today|tomorrow|next week|in \d+ (hours|days|weeks))\b', command):
\* one pair (whole phrase, unit) per match
RECURSIVE FindTimes(_, _)
FindTimes(s, i) ==
    IF i > Len(s) THEN << >>
    ELSE LET k == FirstAltAt(s, time_words, i)
             u == InUnitAt(s, i)
         IN  IF k > 0
             THEN << << time_words[k], "" >> >> \o FindTimes(s, i + Len(time_words[k]))
             ELSE IF u > 0
             THEN LET e == DigitsEnd(s, i + 3) + 1 + Len(time_units[u])
                  IN  << << SubSeq(s, i, e), time_units[u] >> >> \o FindTimes(s, e + 1)
             ELSE FindTimes(s, i + 1)

stop_words == {"with", "from", "into", "that", "this", "they", "have", "will", "been", "were"}

RECURSIVE KeepKeywords(_)
KeepKeywords(words) ==
    IF Len(words) = 0 THEN << >>
    ELSE (IF Len(Head(words)) > 3 /\ Head(words) \notin stop_words
          THEN << Head(words) >> ELSE << >>) \o KeepKeywords(Tail(words))

\* keywords[:5]
FirstFive(q) == SubSeq(q, 1, IF Len(q) < 5 THEN Len(q) ELSE 5)

\* CommandProcessor._extract_entities
ExtractEntities(s) ==
    [files    |-> FindFiles(s, 1),
     urls     |-> FindUrls(s, 1),
     programs |-> FindPrograms(s, 1),
     keywords |-> FirstFive(KeepKeywords(Split(s))),
     numbers  |-> FindNumbers(s, 1),
     time_expressions |-> FindTimes(s, 1)]

EntitiesTable == [s \in NormalizedCommands |-> ExtractEntities(s)]
NormalizeTable == [c \in Commands |-> Strip(Lower(c))]

Min(a, b) == IF a < b THEN a ELSE b
Max(a, b) == IF a > b THEN a ELSE b

RECURSIVE MaxConfidence(_)
MaxConfidence(intents) ==
    IF Len(intents) = 1 THEN intents[1].confidence
    ELSE Max(intents[1].confidence, MaxConfidence(Tail(intents)))

\* CommandProcessor._calculate_confidence
CalculateConfidence(intents, entities) ==
    IF Len(intents) = 0 THEN 0
    ELSE Min(ConfOne,
             MaxConfidence(intents)
               + (IF Len(entities.files) > 0 THEN 6 ELSE 0)
               + (IF Len(entities.urls) > 0 THEN 6 ELSE 0)
               + (IF Len(entities.programs) > 0 THEN 6 ELSE 0)
               + 3 * Len(entities.keywords))

\* CommandProcessor.understand
Understand(command, learned) ==
    LET s        == IF command \in DOMAIN NormalizeTable
                    THEN NormalizeTable[command] ELSE Strip(Lower(command))
        intents  == DetectIntents(s, learned)
        entities == IF s \in DOMAIN EntitiesTable
                    THEN EntitiesTable[s] ELSE ExtractEntities(s)
    IN  [original_command   |-> command,
         normalized_command |-> s,
         intents            |-> intents,
         entities           |-> entities,
         confidence         |-> CalculateConfidence(intents, entities)]

(***************************************************************************)
(* CommandProcessor: the task catalog, selection and detection             *)
(***************************************************************************)
Template(name, action, priority, complexity, estimated_time, can_parallel) ==
    [name |-> name, action |-> action, priority |-> priority,
     complexity |-> complexity, estimated_time |-> estimated_time,
     can_parallel |-> can_parallel]

task_templates ==
    [file_operations |->
        [create_file |-> Template("Create File", "file_creation", 3, 1, 2, TRUE),
         open_file   |-> Template("Open File", "file_opening", 2, 1, 1, TRUE),
         delete_file |-> Template("Delete File", "file_deletion", 4, 1, 1, TRUE)],
     web_operations |->
        [web_search    |-> Template("Web Search", "web_search", 2, 2, 5, TRUE),
         open_website  |-> Template("Open Website", "website_opening", 2, 1, 3, TRUE),
         download_file |-> Template("Download File", "file_download", 3, 2, 10, TRUE)],
     system_operations |->
        [install_package |-> Template("Install Package", "package_installation", 4, 3, 30, FALSE),
         run_program     |-> Template("Run Program", "program_execution", 3, 2, 5, TRUE),
         system_check    |-> Template("System Check", "system_monitoring", 1, 2, 8, TRUE)],
     data_operations |->
        [analyze_data |-> Template("Analyze Data", "data_analysis", 3, 4, 60, TRUE),
         convert_data |-> Template("Convert Data", "data_conversion", 2, 2, 15, TRUE),
         backup_data  |-> Template("Backup Data", "data_backup", 4, 2, 45, TRUE)],
     communication |->
        [send_email       |-> Template("Send Email", "email_sending", 3, 2, 10, TRUE),
         schedule_meeting |-> Template("Schedule Meeting", "meeting_scheduling", 3, 3, 15, TRUE)],
     information_gathering |->
        [search_info   |-> Template("Search Information", "information_search", 2, 2, 8, TRUE),
         explain_topic |-> Template("Explain Topic", "topic_explanation", 2, 3, 12, TRUE)],
     automation |->
        [setup_automation |-> Template("Setup Automation", "automation_setup", 4, 4, 120, FALSE),
         create_reminder  |-> Template("Create Reminder", "reminder_creation", 2, 1, 3, TRUE)]]

\* Optional values: None is the empty tuple, a value x is << x >>
None == << >>
Some(x) == << x >>

\* CommandProcessor._select_best_task; None when the category has no catalog

\* a selection that ignores the entities and takes the catalog's first entry
SelectFirstTask(intent_type, understanding) ==
    IF intent_type \notin DOMAIN task_templates THEN None
    ELSE LET possible_tasks == task_templates[intent_type]
         IN  CASE intent_type = "file_operations" -> Some(possible_tasks.create_file)
               [] intent_type = "web_operations" -> Some(possible_tasks.web_search)
               [] intent_type = "system_operations" -> Some(possible_tasks.install_package)
               [] intent_type = "data_operations" -> Some(possible_tasks.analyze_data)
               [] intent_type = "communication" -> Some(possible_tasks.send_email)
               [] intent_type = "information_gathering" -> Some(possible_tasks.search_info)
               [] intent_type = "automation" -> Some(possible_tasks.setup_automation)

\* a selection that installs a package when the command names no program
SelectInstallWithoutProgram(intent_type, understanding) ==
    IF intent_type = "system_operations" /\ Len(understanding.entities.programs) = 0
    THEN Some(task_templates.system_operations.install_package)
    ELSE SelectFirstTask(intent_type, understanding)

SelectBestTask(intent_type, understanding) ==
    IF intent_type \notin DOMAIN task_templates THEN None
    ELSE LET possible_tasks == task_templates[intent_type]
         IN  CASE intent_type = "file_operations" ->
                    IF Len(understanding.entities.files) > 0
                    THEN Some(possible_tasks.open_file)
                    ELSE Some(possible_tasks.create_file)
               [] intent_type = "web_operations" ->
                    IF Len(understanding.entities.urls) > 0
                    THEN Some(possible_tasks.open_website)
                    ELSE Some(possible_tasks.web_search)
               [] intent_type = "system_operations" ->
                    IF Len(understanding.entities.programs) > 0
                    THEN Some(possible_tasks.run_program)
                    ELSE Some(possible_tasks.system_check)
               [] intent_type = "data_operations" -> Some(possible_tasks.analyze_data)
               [] intent_type = "communication" -> Some(possible_tasks.send_email)
               [] intent_type = "information_gathering" -> Some(possible_tasks.search_info)
               [] intent_type = "automation" -> Some(possible_tasks.create_reminder)

\* dict.get(key, default) on a task
Get(task, key, default) == IF key \in DOMAIN task THEN task[key] ELSE default

\* a descending sort that puts t in front of the elements of its own priority
InsertPosBeforeEqual(sorted, t) ==
    Cardinality({ i \in 1..Len(sorted) :
                    Get(sorted[i], "priority", 0) > Get(t, "priority", 0) }) + 1

\* the position at which a stable descending sort places t in a sorted list:
\* after every element whose priority is at least that of t
InsertPos(sorted, t) ==
    Cardinality({ i \in 1..Len(sorted) :
                    Get(sorted[i], "priority", 0) >= Get(t, "priority", 0) }) + 1

InsertAt(q, pos, t) == SubSeq(q, 1, pos - 1) \o << t >> \o SubSeq(q, pos, Len(q))

\* sorted(tasks, key=lambda x: x.get('priority', 0), reverse=True):
\* descending by priority, elements of equal priority keep their order
RECURSIVE SortByPriority(_)
SortByPriority(tasks) ==
    IF Len(tasks) = 0 THEN << >>
    ELSE LET front == SortByPriority(SubSeq(tasks, 1, Len(tasks) - 1))
             t     == tasks[Len(tasks)]
         IN  InsertAt(front, InsertPos(front, t), t)

\* the task detect_tasks builds for one intent, if any
RECURSIVE TasksOfIntents(_, _)
TasksOfIntents(understanding, k) ==
    IF k > Len(understanding.intents) THEN << >>
    ELSE LET intent == understanding.intents[k]
             selected_task == SelectBestTask(intent.type, understanding)
         IN  (IF selected_task # None
              THEN << [name |-> selected_task[1].name,
                       action |-> selected_task[1].action,
                       priority |-> selected_task[1].priority,
                       complexity |-> selected_task[1].complexity,
                       estimated_time |-> selected_task[1].estimated_time,
                       can_parallel |-> selected_task[1].can_parallel,
                       intent |-> intent,
                       entities |-> understanding.entities,
                       confidence |-> intent.confidence] >>
              ELSE << >>)
             \o TasksOfIntents(understanding, k + 1)

\* CommandProcessor.detect_tasks
DetectTasks(understanding) == SortByPriority(TasksOfIntents(understanding, 1))

\* the two-word key learn_pattern stores a command under, None if the
\* command has fewer than two words
KeyPhrase(command) ==
    LET words == Split(Lower(command))
    IN  IF Len(words) >= 2 THEN Some(words[1] \o " " \o words[2]) ELSE None

\* learned_patterns[key] = entry: replaces the entry of an existing key in
\* place, otherwise appends (dict insertion order)
PutLearned(learned, entry) ==
    IF \E k \in 1..Len(learned) : learned[k].key = entry.key
    THEN [k \in 1..Len(learned) |->
            IF learned[k].key = entry.key THEN entry ELSE learned[k]]
    ELSE Append(learned, entry)

\* a learn_pattern that indexes the intent list without looking at its length
LearnedTypeUnchecked(understanding) ==
    IF Len(understanding.intents) > 0
    THEN Some(understanding.intents[1].type) ELSE None

\* understanding['intents'][0]['type'] if understanding['intents'] else 'unknown';
\* None stands for the IndexError of indexing an empty list
LearnedType(understanding) ==
    IF Len(understanding.intents) > 0
    THEN Some(understanding.intents[1].type) ELSE Some("unknown")

\* CommandProcessor.learn_pattern raises
LearnPatternRaises(command, understanding) ==
    KeyPhrase(command) # None /\ LearnedType(understanding) = None

\* CommandProcessor.learn_pattern: the learned-pattern table afterwards
LearnPattern(learned, command, understanding) ==
    IF KeyPhrase(command) = None THEN learned
    ELSE PutLearned(learned,
            [key |-> KeyPhrase(command)[1],
             type |-> LearnedType(understanding)[1],
             confidence |-> understanding.confidence])

(***************************************************************************)
(* TaskExecutor: the handlers                                              *)
(*                                                                         *)
(* The file system is a function from the names of the existing files to   *)
(* a tag for their content.  What the operating system, the browser, the   *)
(* network and a child process do is the environment's choice env:         *)
(* "ok", "fail" (the call raised before it changed anything), "partial"    *)
(* (the file was opened for writing and a later write raised) or           *)
(* "timeout" (subprocess.TimeoutExpired).                                  *)
(***************************************************************************)
max_concurrent_tasks == 5

\* a registry whose email handler was never registered
HandlersWithoutEmail ==
    {"file_creation", "file_opening", "file_deletion", "web_search",
     "website_opening", "file_download", "package_installation",
     "program_execution", "system_monitoring", "data_analysis",
     "data_conversion", "data_backup", "meeting_scheduling",
     "information_search", "topic_explanation", "automation_setup",
     "reminder_creation"}

\* the action identifiers of TaskExecutor.task_handlers
task_handlers ==
    {"file_creation", "file_opening", "file_deletion", "web_search",
     "website_opening", "file_download", "package_installation",
     "program_execution", "system_monitoring", "data_analysis",
     "data_conversion", "data_backup", "email_sending", "meeting_scheduling",
     "information_search", "topic_explanation", "automation_setup",
     "reminder_creation"}

\* str(e) of an error raised by the operating system or a library
EnvErrorText == "[Errno 2] No such file or directory"

NoEntities ==
    [files |-> << >>, urls |-> << >>, programs |-> << >>, keywords |-> << >>,
     numbers |-> << >>, time_expressions |-> << >>]

\* task.get('entities', {}).get(field, [])
EntitiesOf(task, field) == Get(Get(task, "entities", NoEntities), field, << >>)

Exists(fs, name) == name \in DOMAIN fs
WriteFile(fs, name, content) == (name :> content) @@ fs
RemoveFile(fs, name) == [n \in DOMAIN fs \ {name} |-> fs[n]]

\* a handler returned output / raised Exception(error)
Return(output, fs) == [raised |-> FALSE, output |-> output, fs |-> fs]
Raise(error, fs) == [raised |-> TRUE, error |-> error, fs |-> fs]

\* TaskExecutor._create_file; ts is int(time.time()) as text
CreateFile(task, fs, env, ts) ==
    LET files    == EntitiesOf(task, "files")
        filename == IF Len(files) > 0 THEN files[1] ELSE "new_file_" \o ts \o ".txt"
    IN  CASE env = "ok" ->
               Return([filename |-> filename,
                       message |-> "File '" \o filename \o "' created successfully"],
                      WriteFile(fs, filename, "created"))
          [] env = "partial" ->
               Raise("Failed to create file: " \o EnvErrorText,
                     WriteFile(fs, filename, "partial"))
          [] OTHER -> Raise("Failed to create file: " \o EnvErrorText, fs)

\* TaskExecutor._open_file
OpenFile(task, fs, env) ==
    LET files == EntitiesOf(task, "files")
    IN  IF Len(files) = 0 THEN Raise("No file specified to open", fs)
        ELSE IF ~Exists(fs, files[1])
        THEN Raise("Failed to open file: File '" \o files[1] \o "' does not exist", fs)
        ELSE IF env = "ok"
        THEN Return([filename |-> files[1],
                     message |-> "File '" \o files[1] \o "' opened successfully"], fs)
        ELSE Raise("Failed to open file: " \o EnvErrorText, fs)

\* TaskExecutor._delete_file
DeleteFile(task, fs, env) ==
    LET files == EntitiesOf(task, "files")
    IN  IF Len(files) = 0 THEN Raise("No file specified to delete", fs)
        ELSE IF ~Exists(fs, files[1])
        THEN Raise("Failed to delete file: File '" \o files[1] \o "' does not exist", fs)
        ELSE IF env = "ok"
        THEN Return([filename |-> files[1],
                     message |-> "File '" \o files[1] \o "' deleted successfully"],
                    RemoveFile(fs, files[1]))
        ELSE Raise("Failed to delete file: " \o EnvErrorText, fs)

\* TaskExecutor._web_search
WebSearch(task, fs, env) ==
    LET keywords     == EntitiesOf(task, "keywords")
        search_query == Join(keywords, " ")
        search_url   == "https://www.google.com/search?q=" \o ReplaceSpaceFrom(search_query, 1)
    IN  IF Len(keywords) = 0 THEN Raise("No search terms provided", fs)
        ELSE IF env = "ok"
        THEN Return([search_query |-> search_query, search_url |-> search_url,
                     message |-> "Web search for '" \o search_query \o "' opened in browser"], fs)
        ELSE Raise("Failed to perform web search: " \o EnvErrorText, fs)

\* TaskExecutor._open_website
OpenWebsite(task, fs, env) ==
    LET urls == EntitiesOf(task, "urls")
    IN  IF Len(urls) = 0 THEN Raise("No URL provided", fs)
        ELSE IF env = "ok"
        THEN Return([url |-> urls[1],
                     message |-> "Website '" \o urls[1] \o "' opened in browser"], fs)
        ELSE Raise("Failed to open website: " \o EnvErrorText, fs)

\* the position after the last '/' of url
RECURSIVE AfterLastSlash(_, _)
AfterLastSlash(url, i) ==
    IF i < 1 \/ CharAt(url, i) = "/" THEN i + 1 ELSE AfterLastSlash(url, i - 1)

\* TaskExecutor._download_file
DownloadFile(task, fs, env, ts) ==
    LET urls     == EntitiesOf(task, "urls")
        last     == SubSeq(urls[1], AfterLastSlash(urls[1], Len(urls[1])), Len(urls[1]))
        filename == IF last # "" THEN last ELSE "downloaded_file_" \o ts
    IN  IF Len(urls) = 0 THEN Raise("No URL provided for download", fs)
        ELSE CASE env = "ok" ->
                    Return([url |-> urls[1], filename |-> filename,
                            message |-> "File downloaded successfully: " \o filename],
                           WriteFile(fs, filename, "downloaded"))
               [] env = "partial" ->
                    Raise("Failed to download file: " \o EnvErrorText,
                          WriteFile(fs, filename, "partial"))
               [] OTHER -> Raise("Failed to download file: " \o EnvErrorText, fs)

\* TaskExecutor._install_package
InstallPackage(task, fs, env) ==
    LET keywords == EntitiesOf(task, "keywords")
    IN  IF Len(keywords) = 0 THEN Raise("No package name provided", fs)
        ELSE CASE env = "ok" ->
                    Return([package |-> keywords[1],
                            message |-> "Package '" \o keywords[1] \o "' installed successfully"], fs)
               [] env = "timeout" -> Raise("Package installation timed out", fs)
               [] OTHER ->
                    Raise("Failed to install package: Installation failed: " \o EnvErrorText, fs)

\* TaskExecutor._run_program
RunProgram(task, fs, env) ==
    LET programs == EntitiesOf(task, "programs")
        files    == EntitiesOf(task, "files")
        program  == IF Len(programs) > 0 THEN programs[1] ELSE files[1]
    IN  IF Len(programs) = 0 /\ Len(files) = 0
        THEN Raise("No program or file specified to run", fs)
        ELSE CASE env = "ok" ->
                    Return([program |-> program,
                            message |-> "Program '" \o program \o "' executed successfully"], fs)
               [] env = "timeout" -> Raise("Program execution timed out", fs)
               [] OTHER -> Raise("Failed to run program: " \o EnvErrorText, fs)

\* TaskExecutor._check_system
CheckSystem(task, fs, env) ==
    IF env = "ok" THEN Return([message |-> "System status checked successfully"], fs)
    ELSE Raise("Failed to check system status: " \o EnvErrorText, fs)

\* TaskExecutor._analyze_data
AnalyzeData(task, fs) ==
    LET files == EntitiesOf(task, "files")
    IN  IF Len(files) > 0 /\ Exists(fs, files[1])
        THEN Return([filename |-> files[1], analysis_type |-> "basic_file_analysis",
                     message |-> "Basic analysis of '" \o files[1] \o "' completed"], fs)
        ELSE Return([analysis_type |-> "general_data_analysis",
                     message |-> "Data analysis completed (placeholder implementation)"], fs)

\* TaskExecutor._convert_data
ConvertData(task, fs) ==
    LET files == EntitiesOf(task, "files")
    IN  IF Len(files) > 0
        THEN Return([source_file |-> files[1], conversion_type |-> "format_conversion",
                     message |-> "Data conversion for '" \o files[1] \o "' completed"], fs)
        ELSE Return([conversion_type |-> "general_data_conversion",
                     message |-> "Data conversion completed (placeholder implementation)"], fs)

\* TaskExecutor._backup_data
BackupData(task, fs, env) ==
    LET files       == EntitiesOf(task, "files")
        backup_name == files[1] \o ".backup"
    IN  IF Len(files) > 0 /\ Exists(fs, files[1])
        THEN CASE env = "ok" ->
                    Return([source_file |-> files[1], backup_file |-> backup_name,
                            message |-> "Backup created: " \o backup_name],
                           WriteFile(fs, backup_name, fs[files[1]]))
               [] env = "partial" ->
                    Raise("Failed to create backup: " \o EnvErrorText,
                          WriteFile(fs, backup_name, "partial"))
               [] OTHER -> Raise("Failed to create backup: " \o EnvErrorText, fs)
        ELSE Return([backup_type |-> "general_backup",
                     message |-> "Data backup completed (placeholder implementation)"], fs)

\* TaskExecutor._search_information
SearchInformation(task, fs) ==
    LET keywords     == EntitiesOf(task, "keywords")
        search_query == IF Len(keywords) > 0 THEN Join(keywords, " ") ELSE "general information"
    IN  Return([search_query |-> search_query, search_type |-> "information_search",
                message |-> "Information search for '" \o search_query \o "' completed"], fs)

\* TaskExecutor._explain_topic
ExplainTopic(task, fs) ==
    LET keywords == EntitiesOf(task, "keywords")
        topic    == IF Len(keywords) > 0 THEN Join(keywords, " ") ELSE "general topic"
    IN  Return([topic |-> topic, explanation_type |-> "topic_explanation",
                message |-> "Explanation of '" \o topic \o "' completed"], fs)

\* TaskExecutor._create_reminder; a time expression is the pair findall yields
CreateReminder(task, fs) ==
    LET times         == EntitiesOf(task, "time_expressions")
        reminder_time == IF Len(times) > 0
                         THEN "('" \o times[1][1] \o "', '" \o times[1][2] \o "')"
                         ELSE "later"
    IN  Return([reminder_time |-> reminder_time, reminder_type |-> "general_reminder",
                message |-> "Reminder created for " \o reminder_time], fs)

\* handler(task): what the handler registered for task.action does
Handler(task, fs, env, ts) ==
    CASE task.action = "file_creation" -> CreateFile(task, fs, env, ts)
      [] task.action = "file_opening" -> OpenFile(task, fs, env)
      [] task.action = "file_deletion" -> DeleteFile(task, fs, env)
      [] task.action = "web_search" -> WebSearch(task, fs, env)
      [] task.action = "website_opening" -> OpenWebsite(task, fs, env)
      [] task.action = "file_download" -> DownloadFile(task, fs, env, ts)
      [] task.action = "package_installation" -> InstallPackage(task, fs, env)
      [] task.action = "program_execution" -> RunProgram(task, fs, env)
      [] task.action = "system_monitoring" -> CheckSystem(task, fs, env)
      [] task.action = "data_analysis" -> AnalyzeData(task, fs)
      [] task.action = "data_conversion" -> ConvertData(task, fs)
      [] task.action = "data_backup" -> BackupData(task, fs, env)
      [] task.action = "email_sending" ->
            Return([email_type |-> "general_email",
                    message |-> "Email sending completed (placeholder implementation)"], fs)
      [] task.action = "meeting_scheduling" ->
            Return([meeting_type |-> "general_meeting",
                    message |-> "Meeting scheduling completed (placeholder implementation)"], fs)
      [] task.action = "information_search" -> SearchInformation(task, fs)
      [] task.action = "topic_explanation" -> ExplainTopic(task, fs)
      [] task.action = "automation_setup" ->
            Return([automation_type |-> "general_automation",
                    message |-> "Automation setup completed (placeholder implementation)"], fs)
      [] task.action = "reminder_creation" -> CreateReminder(task, fs)

\* the environment outcomes that make a difference to the handler of task
EnvChoices(task, fs) ==
    LET a == task.action
        files == EntitiesOf(task, "files")
    IN  CASE a = "file_creation" -> {"ok", "fail", "partial"}
          [] a \in {"file_opening", "file_deletion"} ->
                IF Len(files) > 0 /\ Exists(fs, files[1]) THEN {"ok", "fail"} ELSE {"ok"}
          [] a = "web_search" ->
                IF Len(EntitiesOf(task, "keywords")) > 0 THEN {"ok", "fail"} ELSE {"ok"}
          [] a = "website_opening" ->
                IF Len(EntitiesOf(task, "urls")) > 0 THEN {"ok", "fail"} ELSE {"ok"}
          [] a = "file_download" ->
                IF Len(EntitiesOf(task, "urls")) > 0 THEN {"ok", "fail", "partial"} ELSE {"ok"}
          [] a = "package_installation" ->
                IF Len(EntitiesOf(task, "keywords")) > 0 THEN {"ok", "fail", "timeout"} ELSE {"ok"}
          [] a = "program_execution" ->
                IF Len(EntitiesOf(task, "programs")) > 0 \/ Len(files) > 0
                THEN {"ok", "fail", "timeout"} ELSE {"ok"}
          [] a = "system_monitoring" -> {"ok", "fail"}
          [] a = "data_backup" ->
                IF Len(files) > 0 /\ Exists(fs, files[1]) THEN {"ok", "fail", "partial"} ELSE {"ok"}
          [] OTHER -> {"ok"}

(***************************************************************************)
(* AIBrain and its stores: the state                                       *)
(***************************************************************************)
\* energy and focus are counted in twentieths: 20 is 1.0, 2 is 0.1, 1 is 0.05
LevelOne == 20
\* importance is counted in tenths: 10 is 1.0
ImportanceOne == 10

VARIABLES
    is_active,          \* AIBrain.is_active
    energy_level,       \* AIBrain.energy_level
    focus_level,        \* AIBrain.focus_level
    learned_patterns,   \* CommandProcessor.learned_patterns, in insertion order
    context_memory,     \* CommandProcessor.context_memory
    short_term_memory,  \* MemoryManager.short_term_memory
    total_memories,     \* MemoryManager.memory_stats['total_memories']
    facts,              \* KnowledgeBase.facts: the contents of the stored facts
    knowledge_stats,    \* KnowledgeBase.knowledge_stats
    concepts,           \* KnowledgeBase.concepts
    rules,              \* KnowledgeBase.rules
    patterns,           \* KnowledgeBase.patterns
    long_term_memory,   \* MemoryManager.long_term_memory
    memory_index,       \* MemoryManager.memory_index
    now,                \* datetime.now(), in hours since the first construction
    disk,               \* the files of data/memory and data/knowledge
    running_tasks,      \* TaskExecutor.running_tasks
    task_history,       \* TaskExecutor.task_history
    fs,                 \* the files on disk
    pc,                 \* "idle", or "executing" inside AIBrain.execute_tasks
    cur,                \* the call in progress: command, understanding, tasks, plan
    idx,                \* the next position of the execute_tasks loop in priority_order
    results,            \* the results list execute_tasks is building
    in_flight,          \* positions of the tasks whose handler has been entered and not left
    invoked,            \* positions of the tasks of this plan whose handler was entered
    handler_calls,      \* number of handler invocations so far
    replay,             \* the calls made on this brain and what each showed, for a second run
    returned,           \* what the last call returned to its caller
    calls               \* number of process_command / execute_tasks calls so far

vars == << is_active, energy_level, focus_level, learned_patterns, context_memory,
           short_term_memory, total_memories, facts, knowledge_stats,
           concepts, rules, patterns, long_term_memory, memory_index, now, disk,
           running_tasks, task_history, fs, pc, cur, idx, results, in_flight,
           invoked, handler_calls, returned, calls, replay >>

\* int(time.time()) as text
TimeStamps == {"1700000000"}

\* the files that may exist when the brain is constructed
InitialFileSystems == { << >>, ("demo.txt" :> "original") }

\* tasks a caller of AIBrain.execute_tasks may put into a plan besides the
\* catalog's: one whose action has no handler, one without an action
CustomTask == [name |-> "Custom", action |-> "custom_action"]
BrokenTask == [name |-> "Broken"]

NonParallelTemplates ==
    { task_templates.system_operations.install_package,
      task_templates.automation.setup_automation }

DirectTasks == NonParallelTemplates \cup {CustomTask, BrokenTask}

DirectPlans ==
    UNION { [1..n -> DirectTasks] : n \in 0..MaxMixedLen }
    \cup { [i \in 1..LongPlanLen |-> t] : t \in NonParallelTemplates }

\* hashlib.md5(content).hexdigest(): the digest stands for the content it
\* was computed from (no two contents of the model share a digest)
Md5(content) == [md5 |-> content]

Range(q) == { q[i] : i \in DOMAIN q }

\* the words longer than 3 characters of text.lower().split()
LongWords(text) == { w \in Range(Split(Lower(text))) : Len(w) > 3 }

\* index[word].append(id) for every word of words, on a defaultdict(list)
AppendToEach(index, words, id) ==
    [w \in DOMAIN index \cup words |->
        IF w \in words THEN Append(Get(index, w, << >>), id) ELSE index[w]]

\* KnowledgeBase._index_knowledge for a fact and for a concept
IndexFact(pats, entry) == AppendToEach(pats, LongWords(entry.content), entry.id)
IndexConcept(pats, entry) ==
    AppendToEach(pats, LongWords(entry.name \o " " \o entry.definition), entry.id)

\* the entry KnowledgeBase.add_fact stores under Md5(fact)
FactEntry(fact, category, source, ts) ==
    [id |-> Md5(fact), content |-> fact, category |-> category,
     confidence |-> ConfOne, source |-> source, timestamp |-> ts,
     access_count |-> 0, last_accessed |-> ts]

\* the entry KnowledgeBase.add_concept stores under Md5(concept)
ConceptEntry(concept, definition, examples, category, ts) ==
    [id |-> Md5(concept), name |-> concept, definition |-> definition,
     examples |-> examples, category |-> category, timestamp |-> ts,
     access_count |-> 0, last_accessed |-> ts]

\* the entry KnowledgeBase.add_rule appends
RuleEntry(condition, action, ts) ==
    [id |-> Md5(condition \o " -> " \o action), condition |-> condition,
     action |-> action, confidence |-> ConfOne, timestamp |-> ts,
     usage_count |-> 0, success_count |-> 0]

\* the knowledge base as a record of its tables
EmptyKnowledge ==
    [facts |-> << >>, concepts |-> << >>, rules |-> << >>, patterns |-> << >>,
     stats |-> [total_facts |-> 0, total_concepts |-> 0, total_rules |-> 0,
                total_patterns |-> 0, learning_sessions |-> 0]]

\* KnowledgeBase.add_fact
AddFact(kb, fact, category, source, ts) ==
    LET entry == FactEntry(fact, category, source, ts)
    IN  [kb EXCEPT !.facts = (entry.id :> entry) @@ @,
                   !.stats.total_facts = @ + 1,
                   !.patterns = IndexFact(@, entry)]

\* KnowledgeBase.add_concept
AddConcept(kb, concept, definition, examples, category, ts) ==
    LET entry == ConceptEntry(concept, definition, examples, category, ts)
    IN  [kb EXCEPT !.concepts = (entry.id :> entry) @@ @,
                   !.stats.total_concepts = @ + 1,
                   !.patterns = IndexConcept(@, entry)]

\* KnowledgeBase.add_rule
AddRule(kb, condition, action, ts) ==
    [kb EXCEPT !.rules = Append(@, RuleEntry(condition, action, ts)),
               !.stats.total_rules = @ + 1]

\* the arguments of the add_fact, add_concept and add_rule calls of
\* KnowledgeBase._initialize_basic_knowledge, in order
BasicFactCalls ==
    << << "I am an AI assistant that can understand natural language commands", "system" >>,
       << "I can perform file operations like creating, opening, and deleting files", "capabilities" >>,
       << "I can perform web searches and open websites", "capabilities" >>,
       << "I can install packages and run programs", "capabilities" >>,
       << "I can analyze data and perform system checks", "capabilities" >> >>
BasicConceptCalls ==
    << << "Command Processing",
          "The ability to understand and interpret natural language commands",
          << "file operations", "web searches", "system tasks" >> >>,
       << "Task Execution",
          "The process of carrying out detected tasks automatically",
          << "file creation", "program execution", "data analysis" >> >>,
       << "Memory Management",
          "The ability to store and retrieve information from past interactions",
          << "short-term memory", "long-term memory", "memory consolidation" >> >> >>
BasicRuleCalls ==
    << << "user wants to create a file", "use file creation task" >>,
       << "user wants to search the web", "use web search task" >>,
       << "user wants to install something", "use package installation task" >>,
       << "user wants to check system status", "use system monitoring task" >> >>

RECURSIVE AddFacts(_, _, _, _)
AddFacts(kb, calls_, source, ts) ==
    IF Len(calls_) = 0 THEN kb
    ELSE AddFacts(AddFact(kb, Head(calls_)[1], Head(calls_)[2], source, ts),
                  Tail(calls_), source, ts)
RECURSIVE AddConcepts(_, _, _)
AddConcepts(kb, calls_, ts) ==
    IF Len(calls_) = 0 THEN kb
    ELSE AddConcepts(AddConcept(kb, Head(calls_)[1], Head(calls_)[2],
                                Head(calls_)[3], "system", ts),
                     Tail(calls_), ts)
RECURSIVE AddRules(_, _, _)
AddRules(kb, calls_, ts) ==
    IF Len(calls_) = 0 THEN kb
    ELSE AddRules(AddRule(kb, Head(calls_)[1], Head(calls_)[2], ts), Tail(calls_), ts)

\* KnowledgeBase._initialize_basic_knowledge
InitializeBasicKnowledge(kb, ts) ==
    AddRules(AddConcepts(AddFacts(kb, BasicFactCalls, "system", ts),
                         BasicConceptCalls, ts),
             BasicRuleCalls, ts)

\* KnowledgeBase.__init__ on an empty data directory, at time 0
FreshKnowledge == InitializeBasicKnowledge(EmptyKnowledge, 0)

NoCall == [command |-> "", understanding |-> << >>, tasks |-> << >>,
           priority_order |-> << >>, kind |-> "none"]

\* AIBrain.__init__ with TaskExecutor.__init__, CommandProcessor.__init__,
\* MemoryManager.__init__ and KnowledgeBase.__init__ on empty data directories
Init ==
    /\ is_active = FALSE
    /\ energy_level = LevelOne
    /\ focus_level = LevelOne
    /\ learned_patterns = << >>
    /\ context_memory = << >>
    /\ short_term_memory = << >>
    /\ total_memories = 0
    /\ facts = FreshKnowledge.facts
    /\ knowledge_stats = FreshKnowledge.stats
    /\ concepts = FreshKnowledge.concepts
    /\ rules = FreshKnowledge.rules
    /\ patterns = FreshKnowledge.patterns
    /\ long_term_memory = << >>
    /\ memory_index = << >>
    /\ now = 0
    /\ disk = << >>
    /\ running_tasks = << >>
    /\ task_history = << >>
    /\ fs \in InitialFileSystems
    /\ pc = "idle"
    /\ cur = NoCall
    /\ idx = 0
    /\ results = << >>
    /\ in_flight = {}
    /\ invoked = {}
    /\ handler_calls = 0
    /\ returned = [call |-> "none"]
    /\ calls = 0
    /\ replay = [run |-> 1, script |-> << >>, replayed |-> 0, fs0 |-> fs]

kb_vars == << facts, knowledge_stats, concepts, rules, patterns >>
store_vars == << short_term_memory, total_memories, long_term_memory,
                 memory_index, now, disk, kb_vars >>
processor_vars == << learned_patterns, context_memory >>
executor_vars == << running_tasks, task_history >>
loop_vars == << cur, idx, results, in_flight, invoked >>

(***************************************************************************)
(* Persistence: MemoryManager.save_memory, KnowledgeBase.save_knowledge    *)
(* and the loading done by the constructors                                *)
(***************************************************************************)
\* a write that stops before the last entry of the table
RECURSIVE PairsButOne(_, _)
PairsButOne(table, keys) ==
    IF Cardinality(keys) <= 1 THEN << >>
    ELSE LET k == CHOOSE k \in keys : TRUE
         IN  << << k, table[k] >> >> \o PairsButOne(table, keys \ {k})

\* the key/value entries of a dict or the index/element entries of a list,
\* as pickle.dump and json.dump write them one after the other
RECURSIVE Pairs(_, _)
Pairs(table, keys) ==
    IF keys = {} THEN << >>
    ELSE LET k == CHOOSE k \in keys : TRUE
         IN  << << k, table[k] >> >> \o Pairs(table, keys \ {k})

\* pickle.dump(table, f): the content of the file
PickleDump(table) == [format |-> "pickle", entries |-> Pairs(table, DOMAIN table)]

\* pickle.load(f): the table rebuilt from the entries of the file
PickleLoad(file) ==
    [k \in { file.entries[i][1] : i \in DOMAIN file.entries } |->
        (CHOOSE e \in Range(file.entries) : e[1] = k)[2]]

\* json.dump(stats, f, default=str) and json.load(f) of a statistics dict;
\* the counters are numbers and are written as numbers
JsonDump(stats) == [format |-> "json", entries |-> Pairs(stats, DOMAIN stats)]
JsonLoad(file) ==
    [k \in { file.entries[i][1] : i \in DOMAIN file.entries } |->
        (CHOOSE e \in Range(file.entries) : e[1] = k)[2]]

\* MemoryManager.save_memory: the files afterwards
SaveMemory(files, ltm, index, total) ==
    ("long_term_memory.pkl" :> PickleDump(ltm))
    @@ ("memory_index.pkl" :> PickleDump(index))
    @@ ("memory_stats.json" :> JsonDump([total_memories |-> total]))
    @@ files

\* KnowledgeBase.save_knowledge: the files afterwards
SaveKnowledge(files, kb) ==
    ("facts.pkl" :> PickleDump(kb.facts))
    @@ ("concepts.pkl" :> PickleDump(kb.concepts))
    @@ ("rules.pkl" :> PickleDump(kb.rules))
    @@ ("patterns.pkl" :> PickleDump(kb.patterns))
    @@ ("knowledge_stats.json" :> JsonDump(kb.stats))
    @@ files

\* if os.path.exists(file): table = pickle.load(f), else the table stays as
\* the constructor made it
LoadTable(files, name, empty) ==
    IF name \in DOMAIN files THEN PickleLoad(files[name]) ELSE empty
LoadStats(files, name, empty) ==
    IF name \in DOMAIN files THEN JsonLoad(files[name]) ELSE empty

\* KnowledgeBase._load_knowledge
LoadKnowledge(files) ==
    [facts |-> LoadTable(files, "facts.pkl", EmptyKnowledge.facts),
     concepts |-> LoadTable(files, "concepts.pkl", EmptyKnowledge.concepts),
     rules |-> LoadTable(files, "rules.pkl", EmptyKnowledge.rules),
     patterns |-> LoadTable(files, "patterns.pkl", EmptyKnowledge.patterns),
     stats |-> LoadStats(files, "knowledge_stats.json", EmptyKnowledge.stats)]

\* MemoryManager._load_memories
LoadMemories(files) ==
    [long_term_memory |-> LoadTable(files, "long_term_memory.pkl", << >>),
     memory_index |-> LoadTable(files, "memory_index.pkl", << >>),
     stats |-> LoadStats(files, "memory_stats.json", [total_memories |-> 0])]

\* the knowledge base as a record of its tables
Knowledge ==
    [facts |-> facts, concepts |-> concepts, rules |-> rules,
     patterns |-> patterns, stats |-> knowledge_stats]

(***************************************************************************)
(* AIBrain: lifecycle                                                      *)
(***************************************************************************)
\* AIBrain.wake_up
WakeUp ==
    /\ pc = "idle"
    /\ is_active' = TRUE
    /\ energy_level' = LevelOne
    /\ focus_level' = LevelOne
    /\ UNCHANGED << store_vars, processor_vars, executor_vars, loop_vars,
                    fs, pc, handler_calls, returned, calls >>

\* AIBrain.sleep
Sleep ==
    /\ pc = "idle"
    /\ is_active' = FALSE
    /\ disk' = SaveKnowledge(
                   SaveMemory(disk, long_term_memory, memory_index, total_memories),
                   Knowledge)
    /\ UNCHANGED << energy_level, focus_level, short_term_memory, total_memories,
                    long_term_memory, memory_index, now, kb_vars, processor_vars,
                    executor_vars, loop_vars, fs, pc, handler_calls, returned, calls >>

(***************************************************************************)
(* AIBrain.process_command and AIBrain.execute_tasks                       *)
(***************************************************************************)
NotActiveError == "Brain is not active. Please wake up first."
ConstraintError == "Task cannot be run due to system constraints"

RECURSIVE SumEstimates(_)
SumEstimates(tasks) ==
    IF Len(tasks) = 0 THEN 0
    ELSE Get(Head(tasks), "estimated_time", 5) + SumEstimates(Tail(tasks))

RECURSIVE ParallelTasks(_)
ParallelTasks(tasks) ==
    IF Len(tasks) = 0 THEN << >>
    ELSE (IF Get(Head(tasks), "can_parallel", TRUE) THEN << Head(tasks) >> ELSE << >>)
         \o ParallelTasks(Tail(tasks))

\* AIBrain.plan_execution
PlanExecution(tasks) ==
    [tasks |-> tasks,
     priority_order |-> SortByPriority(tasks),
     estimated_time |-> SumEstimates(tasks),
     parallel_tasks |-> ParallelTasks(tasks)]

\* a process_command without the activity check
RejectsNever(active) == FALSE

\* if not self.is_active: process_command returns the error at once
Rejects(active) == ~active

\* AIBrain.process_command up to the call of execute_tasks; on a brain that
\* is not active the whole call
ProcessCommand(command) ==
    /\ pc = "idle"
    /\ calls < MaxCalls
    /\ calls' = calls + 1
    /\ IF Rejects(is_active)
       THEN /\ returned' = [call |-> "process_command",
                            value |-> [error |-> NotActiveError]]
            /\ UNCHANGED << is_active, energy_level, focus_level, store_vars,
                            processor_vars, executor_vars, loop_vars, fs, pc,
                            handler_calls >>
       ELSE LET understanding == Understand(command, learned_patterns)
                tasks == DetectTasks(understanding)
                plan  == PlanExecution(tasks)
            IN  /\ cur' = [command |-> command, understanding |-> understanding,
                           tasks |-> tasks, priority_order |-> plan.priority_order,
                           kind |-> "command"]
                /\ idx' = 1
                /\ results' = << >>
                /\ invoked' = {}
                /\ pc' = "executing"
                /\ UNCHANGED << is_active, energy_level, focus_level, store_vars,
                                processor_vars, executor_vars, in_flight, fs,
                                handler_calls, returned >>

\* a caller plans a task list of its own with AIBrain.plan_execution and
\* hands the plan to AIBrain.execute_tasks
ExecuteTasks(tasks) ==
    /\ pc = "idle"
    /\ calls < MaxCalls
    /\ calls' = calls + 1
    /\ cur' = [command |-> "", understanding |-> << >>, tasks |-> tasks,
               priority_order |-> PlanExecution(tasks).priority_order,
               kind |-> "plan"]
    /\ idx' = 1
    /\ results' = << >>
    /\ invoked' = {}
    /\ pc' = "executing"
    /\ UNCHANGED << is_active, energy_level, focus_level, store_vars,
                    processor_vars, executor_vars, in_flight, fs,
                    handler_calls, returned >>


\* an energy update without the floor at 0.0 and the cap at 1.0
EnergyUnbounded(energy, result) ==
    IF Get(result, "success", FALSE) THEN energy + 2 ELSE energy - 4

\* AIBrain.update_brain_state: the new energy level
EnergyAfter(energy, result) ==
    IF Get(result, "success", FALSE)
    THEN Min(LevelOne, energy + 2)
    ELSE Max(0, energy - 4)

\* AIBrain.update_brain_state: the new focus level
FocusAfter(focus, task) ==
    LET lowered == Max(0, focus - Get(task, "complexity", 1))
    IN  IF lowered < 10 THEN Min(LevelOne, lowered + 2) ELSE lowered

\* MemoryManager._calculate_importance of a task result
TaskImportance(task, result) ==
    Min(ImportanceOne,
        2 * Get(task, "priority", 1) + Get(task, "complexity", 1)
          + (IF Get(result, "success", FALSE) THEN 3 ELSE 1))

\* a buffer without a capacity
AppendUncapped(q, x, cap) == Append(q, x)

\* deque(maxlen=1000).append / the history list capped at 1000
STM_MAXLEN == 1000
HISTORY_MAX == 1000
AppendCapped(q, x, cap) ==
    IF Len(q) >= cap THEN Append(Tail(q), x) ELSE Append(q, x)

\* MemoryManager._generate_memory_id: the md5 digest of
\* json.dumps(data, sort_keys=True, default=str)
MemoryId(data) == Md5(data)

\* MemoryManager._calculate_importance of an interaction: it has no 'task'
\* and no 'result' key, and the 'timestamp' it was given in the same call
\* is 0 hours old, which adds 0.2
InteractionImportance(interaction, ts) == Min(ImportanceOne, 2)

\* the memory item MemoryManager.store_task_result builds at time ts
TaskResultItem(task, result, ts) ==
    [id |-> MemoryId(task), type |-> "task_result",
     data |-> [task |-> task, result |-> result], timestamp |-> ts,
     access_count |-> 0, importance |-> TaskImportance(task, result)]

\* the memory item MemoryManager.store_interaction builds at time ts
InteractionItem(interaction, ts) ==
    [id |-> MemoryId(interaction), type |-> "interaction", data |-> interaction,
     timestamp |-> ts, access_count |-> 0,
     importance |-> InteractionImportance(interaction, ts)]

\* the beginning of json.dumps(memory['data'], default=str) up to the value
\* of the task's action, or of the interaction's command; the text goes on
\* with the other fields, whose words are not modelled
JsonHead(item) ==
    IF item.type = "task_result"
    THEN "{\"task\": {\"name\": \"" \o item.data.task.name
           \o "\", \"action\": \"" \o item.data.task.action
           \o (IF DOMAIN item.data.task = {"name", "action"} THEN "\"}," ELSE "\",")
    ELSE "{\"command\": \"" \o item.data.command \o "\","

\* the texts of the task results of the catalog's tasks, and their indexed
\* words (evaluated once; the words of a text do not depend on the state)
TaskResultHeads ==
    { JsonHead([type |-> "task_result", data |-> [task |-> t]]) :
        t \in UNION { { task_templates[c][k] : k \in DOMAIN task_templates[c] } :
                      c \in DOMAIN task_templates } \cup {CustomTask} }
IndexWordsTable == [text \in TaskResultHeads |-> LongWords(text)]
IndexWords(text) ==
    IF text \in DOMAIN IndexWordsTable THEN IndexWordsTable[text] ELSE LongWords(text)

\* MemoryManager._index_memory
IndexMemory(index, item) == AppendToEach(index, IndexWords(JsonHead(item)), item.id)

\* MemoryManager.store_task_result: the short-term memory afterwards
StoreTaskResult(stm, task, result, ts) ==
    AppendCapped(stm, TaskResultItem(task, result, ts), STM_MAXLEN)

\* MemoryManager.store_interaction: the short-term memory afterwards
StoreInteraction(stm, interaction, ts) ==
    AppendCapped(stm, InteractionItem(interaction, ts), STM_MAXLEN)

\* an execute_task whose failure branches forget to set result['error']
FailedResultNoMessage(task, error) ==
    [task_name |-> task.name, action |-> task.action, success |-> FALSE,
     output |-> None, error |-> None]

\* the TaskResult execute_task starts from, with the fields a branch sets
FailedResult(task, error) ==
    [task_name |-> task.name, action |-> task.action, success |-> FALSE,
     output |-> None, error |-> Some(error)]
SuccessResult(task, output) ==
    [task_name |-> task.name, action |-> task.action, success |-> TRUE,
     output |-> Some(output), error |-> None]

\* the except branch of the loop of AIBrain.execute_tasks: str(KeyError(key))
ErrorResult(task, key) ==
    [task |-> task, success |-> FALSE, error |-> Some("'" \o key \o "'")]

\* an execute_task that enters the task in the registry before it calls the
\* handler
RegistryRegisters(running, id, task) == (id :> task) @@ running

\* execute_task between the admission check and the handler's return: no
\* statement writes running_tasks
RegistryAfterDispatch(running, id, task) == running

\* a dispatcher that starts the handler and goes on without waiting for it
CallReturnsAtOnce(flying) == TRUE

\* output = handler(task) is a blocking call: execute_task is entered for the
\* next task only when no handler is executing
CallBlocks(flying) == flying = {}

\* an admission check that also asks for energy
CanRunTaskWithEnergy(task, running) ==
    /\ energy_level > 0
    /\ Cardinality(DOMAIN running) < max_concurrent_tasks
    /\ (~Get(task, "can_parallel", TRUE) =>
           \A id \in DOMAIN running : Get(running[id], "can_parallel", TRUE))

\* TaskExecutor._can_run_task
CanRunTask(task, running) ==
    /\ Cardinality(DOMAIN running) < max_concurrent_tasks
    /\ (~Get(task, "can_parallel", TRUE) =>
           \A id \in DOMAIN running : Get(running[id], "can_parallel", TRUE))

\* a loop that also stops at the first failed result
LoopDoneOnFailure(i, order, rs) ==
    i > Len(order) \/ (Len(rs) > 0 /\ ~rs[Len(rs)].success)

\* for task in plan["priority_order"]: the loop ends when the list is used up
LoopDone(i, order, rs) == i > Len(order)

\* one iteration of the loop of AIBrain.execute_tasks up to the point where
\* TaskExecutor.execute_task enters the handler; the whole iteration when
\* no handler is entered
StartTask ==
    /\ pc = "executing"
    /\ ~LoopDone(idx, cur.priority_order, results)
    /\ CallBlocks(in_flight)
    /\ LET task == cur.priority_order[idx]
       IN  IF "name" \notin DOMAIN task \/ "action" \notin DOMAIN task
           THEN \* task['name'] or task['action'] raises KeyError
                /\ results' = Append(results,
                       ErrorResult(task, IF "name" \notin DOMAIN task
                                         THEN "name" ELSE "action"))
                /\ idx' = idx + 1
                /\ UNCHANGED << is_active, energy_level, focus_level, store_vars,
                                processor_vars, executor_vars, cur, in_flight,
                                invoked, fs, pc, handler_calls, returned, calls >>
           ELSE IF ~CanRunTask(task, running_tasks) \/ task.action \notin task_handlers
           THEN LET result == FailedResult(task,
                                 IF ~CanRunTask(task, running_tasks)
                                 THEN ConstraintError
                                 ELSE "No handler found for action: " \o task.action)
                IN  /\ results' = Append(results, result)
                    /\ energy_level' = EnergyAfter(energy_level, result)
                    /\ focus_level' = FocusAfter(focus_level, task)
                    /\ short_term_memory' =
                           StoreTaskResult(short_term_memory, task, result, now)
                    /\ memory_index' =
                           IndexMemory(memory_index, TaskResultItem(task, result, now))
                    /\ total_memories' = total_memories + 1
                    /\ idx' = idx + 1
                    /\ UNCHANGED << is_active, kb_vars, long_term_memory, now, disk,
                                    processor_vars,
                                    executor_vars, cur, in_flight, invoked, fs, pc,
                                    handler_calls, returned, calls >>
           ELSE /\ in_flight' = in_flight \cup {idx}
                /\ invoked' = invoked \cup {idx}
                /\ handler_calls' = handler_calls + 1
                /\ running_tasks' = RegistryAfterDispatch(running_tasks, idx, task)
                /\ idx' = idx + 1
                /\ UNCHANGED << is_active, energy_level, focus_level, store_vars,
                                processor_vars, task_history, cur, results,
                                fs, pc, returned, calls >>

\* the handler returns or raises; the rest of execute_task and of the
\* iteration of the loop of AIBrain.execute_tasks
FinishTask(i, env, ts) ==
    /\ pc = "executing"
    /\ i \in in_flight
    /\ LET task    == cur.priority_order[i]
           outcome == Handler(task, fs, env, ts)
           result  == IF outcome.raised THEN FailedResult(task, outcome.error)
                      ELSE SuccessResult(task, outcome.output)
       IN  /\ env \in EnvChoices(task, fs)
           /\ fs' = outcome.fs
           /\ task_history' = IF outcome.raised THEN task_history
                              ELSE AppendCapped(task_history, result, HISTORY_MAX)
           /\ results' = Append(results, result)
           /\ energy_level' = EnergyAfter(energy_level, result)
           /\ focus_level' = FocusAfter(focus_level, task)
           /\ short_term_memory' = StoreTaskResult(short_term_memory, task, result, now)
           /\ memory_index' = IndexMemory(memory_index, TaskResultItem(task, result, now))
           /\ total_memories' = total_memories + 1
           /\ in_flight' = in_flight \ {i}
           /\ UNCHANGED << is_active, kb_vars, long_term_memory, now, disk,
                           processor_vars,
                           running_tasks, cur, idx, invoked, pc, handler_calls,
                           returned, calls >>

\* the facts KnowledgeBase.update_from_interaction adds: "key: value" for
\* every text value longer than 10 characters in the output of a successful task
RECURSIVE MinedFacts(_)
MinedFacts(rs) ==
    IF Len(rs) = 0 THEN << >>
    ELSE LET r == Head(rs)
         IN  (IF Get(r, "success", FALSE)
              THEN LET out == r.output[1]
                       keys == { k \in DOMAIN out : Len(out[k]) > 10 }
                   IN  << [keys |-> keys, out |-> out] >>
              ELSE << >>) \o MinedFacts(Tail(rs))

\* str.replace(' ', '_')
RECURSIVE UnderscoreFrom(_, _)
UnderscoreFrom(s, i) ==
    IF i > Len(s) THEN ""
    ELSE (IF CharAt(s, i) = " " THEN "_" ELSE CharAt(s, i)) \o UnderscoreFrom(s, i + 1)

\* a set as a list, in some order
RECURSIVE SetToSeq(_)
SetToSeq(S) ==
    IF S = {} THEN << >>
    ELSE LET x == CHOOSE x \in S : TRUE IN << x >> \o SetToSeq(S \ {x})

\* the add_fact arguments of KnowledgeBase.update_from_interaction, in the
\* order of the results; the order of the keys of one output is not modelled
RECURSIVE MinedFactCalls(_)
MinedFactCalls(mined) ==
    IF Len(mined) = 0 THEN << >>
    ELSE LET m == Head(mined)
             texts == SetToSeq(m.keys)
         IN  [j \in 1..Len(texts) |->
                 << texts[j] \o ": " \o m.out[texts[j]], "task_result" >>]
             \o MinedFactCalls(Tail(mined))

\* the names of the tasks, in order
TaskNames(tasks) == [k \in 1..Len(tasks) |-> tasks[k].name]

\* the second loop of KnowledgeBase._learn_patterns: one entry under
\* "successful_<task name>" for every successful result whose output has a message
RECURSIVE LearnSuccessPatterns(_, _, _)
LearnSuccessPatterns(pats, rs, ts) ==
    IF Len(rs) = 0 THEN pats
    ELSE LET r == Head(rs)
         IN  IF Get(r, "success", FALSE) /\ "message" \in DOMAIN r.output[1]
             THEN LearnSuccessPatterns(
                      AppendToEach(pats,
                          {"successful_" \o UnderscoreFrom(Lower(r.task_name), 1)},
                          [task |-> r.task_name, output |-> r.output[1],
                           timestamp |-> ts]),
                      Tail(rs), ts)
             ELSE LearnSuccessPatterns(pats, Tail(rs), ts)

\* KnowledgeBase._learn_patterns
LearnPatterns(kb, command, tasks, rs, ts) ==
    LET words == Split(Lower(command))
        first == IF Len(words) >= 2
                 THEN [kb EXCEPT
                         !.patterns = AppendToEach(@, {words[1] \o " " \o words[2]},
                             [command |-> command, tasks |-> TaskNames(tasks),
                              success |-> \A k \in 1..Len(rs) : Get(rs[k], "success", FALSE),
                              timestamp |-> ts]),
                         !.stats.total_patterns = @ + 1]
                 ELSE kb
    IN  [first EXCEPT !.patterns = LearnSuccessPatterns(@, rs, ts)]

\* KnowledgeBase.update_from_interaction
UpdateFromInteraction(kb, interaction, ts) ==
    LET counted == [kb EXCEPT !.stats.learning_sessions = @ + 1]
        learned == LearnPatterns(counted, interaction.command, interaction.tasks,
                                 interaction.results, ts)
    IN  AddFacts(learned, MinedFactCalls(MinedFacts(interaction.results)),
                 "interaction", ts)

\* AIBrain.execute_tasks returns; for process_command the rest of the call:
\* learn_from_interaction (store_interaction, update_from_interaction,
\* learn_pattern) and the response, or the response of the except branch
\* when learn_pattern raises
FinishCall ==
    /\ pc = "executing"
    /\ LoopDone(idx, cur.priority_order, results)
    /\ in_flight = {}
    /\ pc' = "idle"
    /\ idx' = 0
    /\ cur' = NoCall
    /\ results' = << >>
    /\ IF cur.kind = "plan"
       THEN /\ returned' = [call |-> "execute_tasks", plan |-> cur.priority_order,
                            invoked |-> invoked, value |-> results]
            /\ UNCHANGED << store_vars, processor_vars >>
       ELSE LET interaction == [command |-> cur.command,
                                understanding |-> cur.understanding,
                                tasks |-> cur.tasks, results |-> results,
                                timestamp |-> now,
                                brain_state |-> [energy |-> energy_level,
                                                 focus |-> focus_level]]
                kb == UpdateFromInteraction(Knowledge, interaction, now)
            IN  /\ short_term_memory' =
                       StoreInteraction(short_term_memory, interaction, now)
                /\ memory_index' =
                       IndexMemory(memory_index, InteractionItem(interaction, now))
                /\ total_memories' = total_memories + 1
                /\ facts' = kb.facts
                /\ patterns' = kb.patterns
                /\ knowledge_stats' = kb.stats
                /\ UNCHANGED << concepts, rules, long_term_memory, now, disk >>
                /\ IF LearnPatternRaises(cur.command, cur.understanding)
                   THEN /\ UNCHANGED processor_vars
                        /\ returned' = [call |-> "process_command",
                                        plan |-> cur.priority_order,
                                        invoked |-> invoked,
                                        value |-> [command |-> cur.command,
                                                   error |-> "list index out of range",
                                                   success |-> FALSE]]
                   ELSE /\ learned_patterns' =
                               LearnPattern(learned_patterns, cur.command, cur.understanding)
                        /\ context_memory' = AppendCapped(context_memory, cur.command, 100)
                        /\ returned' = [call |-> "process_command",
                                        plan |-> cur.priority_order,
                                        invoked |-> invoked,
                                        value |-> [command |-> cur.command,
                                                   understanding |-> cur.understanding,
                                                   tasks |-> cur.tasks,
                                                   results |-> results,
                                                   success |-> TRUE]]
    /\ UNCHANGED << is_active, energy_level, focus_level, executor_vars,
                    in_flight, invoked, fs, handler_calls, calls >>

Next ==
    \/ WakeUp /\ UNCHANGED replay
    \/ Sleep /\ UNCHANGED replay
    \/ \E command \in Commands : ProcessCommand(command) /\ UNCHANGED replay
    \/ \E tasks \in DirectPlans : ExecuteTasks(tasks) /\ UNCHANGED replay
    \/ StartTask /\ UNCHANGED replay
    \/ \E i \in in_flight, env \in {"ok", "fail", "partial", "timeout"}, ts \in TimeStamps :
          FinishTask(i, env, ts) /\ UNCHANGED replay
    \/ FinishCall /\ UNCHANGED replay

Spec == Init /\ [][Next]_vars

(***************************************************************************)
(* Two runs of one sequence of calls: the first brain is used as           *)
(* constructed and every call on it is written down with what it showed;   *)
(* then a second brain is constructed over the same files with other       *)
(* energy and focus levels and is given the same calls.                    *)
(***************************************************************************)
\* the commands and plans of the two runs
AdvisoryCommands == {"create a new file", "hello world"}
AdvisoryPlans == { << t >> : t \in DirectTasks }

\* the energy and focus levels the second brain starts with: none of either,
\* full energy with the focus at 0.45, the energy at 0.1 with full focus
AdvisoryLevels == { << 0, 0 >>, << LevelOne, 9 >>, << 2, LevelOne >> }

\* the number of steps of the first run
MaxScriptLen == 6

\* what a run shows: the tasks detected and planned, the admission decisions
\* (the positions dispatched to a handler), the results, the response, the
\* files, and where the loop of execute_tasks stands
Observed ==
    [cur |-> cur, results |-> results, invoked |-> invoked, in_flight |-> in_flight,
     returned |-> returned, task_history |-> task_history, fs |-> fs,
     is_active |-> is_active, pc |-> pc, idx |-> idx]

\* the next call of the script, for the second brain
Scripted == replay.script[replay.replayed + 1].input

\* a call may be made: any call on the first brain while the script has room,
\* and on the second brain the call the script names next
Turn(input) ==
    IF replay.run = 1
    THEN Len(replay.script) < MaxScriptLen
    ELSE replay.replayed < Len(replay.script) /\ Scripted = input

\* the step just taken: written down with what the first brain shows after
\* it, ticked off in the script for the second
Recorded(input) ==
    replay' = IF replay.run = 1
              THEN [replay EXCEPT
                       !.script = Append(@, [input |-> input, observed |-> Observed'])]
              ELSE [replay EXCEPT !.replayed = @ + 1]

\* AIBrain(): the second brain, with the files as the first one found them
Rerun(energy, focus) ==
    /\ replay.run = 1
    /\ pc = "idle"
    /\ Len(replay.script) > 0
    /\ replay' = [replay EXCEPT !.run = 2]
    /\ is_active' = FALSE
    /\ energy_level' = energy
    /\ focus_level' = focus
    /\ learned_patterns' = << >>
    /\ context_memory' = << >>
    /\ short_term_memory' = << >>
    /\ total_memories' = 0
    /\ facts' = FreshKnowledge.facts
    /\ knowledge_stats' = FreshKnowledge.stats
    /\ concepts' = FreshKnowledge.concepts
    /\ rules' = FreshKnowledge.rules
    /\ patterns' = FreshKnowledge.patterns
    /\ long_term_memory' = << >>
    /\ memory_index' = << >>
    /\ now' = 0
    /\ disk' = << >>
    /\ running_tasks' = << >>
    /\ task_history' = << >>
    /\ fs' = replay.fs0
    /\ cur' = NoCall
    /\ idx' = 0
    /\ results' = << >>
    /\ in_flight' = {}
    /\ invoked' = {}
    /\ handler_calls' = 0
    /\ returned' = [call |-> "none"]
    /\ calls' = 0
    /\ UNCHANGED pc

AdvisoryNext ==
    \/ Turn([kind |-> "wake_up"]) /\ WakeUp /\ Recorded([kind |-> "wake_up"])
    \/ \E command \in AdvisoryCommands :
          /\ Turn([kind |-> "process_command", command |-> command])
          /\ ProcessCommand(command)
          /\ Recorded([kind |-> "process_command", command |-> command])
    \/ \E tasks \in AdvisoryPlans :
          /\ Turn([kind |-> "execute_tasks", plan |-> tasks])
          /\ ExecuteTasks(tasks)
          /\ Recorded([kind |-> "execute_tasks", plan |-> tasks])
    \/ Turn([kind |-> "start_task"]) /\ StartTask /\ Recorded([kind |-> "start_task"])
    \/ \E i \in in_flight, env \in {"ok", "fail", "partial", "timeout"}, ts \in TimeStamps :
          /\ Turn([kind |-> "finish_task", i |-> i, env |-> env, ts |-> ts])
          /\ FinishTask(i, env, ts)
          /\ Recorded([kind |-> "finish_task", i |-> i, env |-> env, ts |-> ts])
    \/ Turn([kind |-> "finish_call"]) /\ FinishCall /\ Recorded([kind |-> "finish_call"])
    \/ \E levels \in AdvisoryLevels : Rerun(levels[1], levels[2])

AdvisorySpec == Init /\ [][AdvisoryNext]_vars

(***************************************************************************)
(* AIBrain.execute_tasks on plans of tasks whose handlers wait for the     *)
(* network or for a child process                                          *)
(***************************************************************************)
IoTasks ==
    { [entities |-> [NoEntities EXCEPT !.urls = << "https://example.com/data.csv" >>]]
          @@ task_templates.web_operations.download_file,
      [entities |-> [NoEntities EXCEPT !.keywords = << "requests" >>]]
          @@ task_templates.system_operations.install_package,
      [entities |-> [NoEntities EXCEPT !.programs = << "python" >>]]
          @@ task_templates.system_operations.run_program }

IoPlans == { << t >> : t \in IoTasks } \cup { << t, u >> : t \in IoTasks, u \in IoTasks }

\* the handler of the task waits for an operation it has set no time limit
\* on: requests.get(url, stream=True), and the reads of iter_content
MayBlockForever(task) ==
    task.action = "file_download" /\ Len(EntitiesOf(task, "urls")) > 0

\* a handler returns or raises by itself: it does local work only, or
\* subprocess.run ends it with TimeoutExpired when its time is up
HandlerReturns ==
    \E i \in in_flight, env \in {"ok", "fail", "partial", "timeout"}, ts \in TimeStamps :
        ~MayBlockForever(cur.priority_order[i]) /\ FinishTask(i, env, ts)
        /\ UNCHANGED replay

TerminationNext ==
    \/ \E tasks \in IoPlans : ExecuteTasks(tasks) /\ UNCHANGED replay
    \/ StartTask /\ UNCHANGED replay
    \/ \E i \in in_flight, env \in {"ok", "fail", "partial", "timeout"}, ts \in TimeStamps :
          FinishTask(i, env, ts) /\ UNCHANGED replay
    \/ FinishCall /\ UNCHANGED replay

\* the interpreter runs the loop of execute_tasks on; a handler is only as
\* sure to come back as the operation it waits for
TerminationSpec ==
    /\ Init
    /\ [][TerminationNext]_vars
    /\ WF_vars(StartTask /\ UNCHANGED replay)
    /\ WF_vars(HandlerReturns)
    /\ WF_vars(FinishCall /\ UNCHANGED replay)

(***************************************************************************)
(* MemoryManager called directly: stores, searches, consolidation, and the *)
(* construction of a new brain over the saved files                        *)
(***************************************************************************)

(***************************************************************************)
(* CommandProcessor.detect_tasks called on one understanding               *)
(***************************************************************************)
\* the intent types _detect_intents can report: the seven categories of the
\* rules and 'unknown', which learn_pattern stores for a command without intent
SelectionTypes ==
    { intent_patterns[i].type : i \in DOMAIN intent_patterns } \cup {"unknown"}

\* the entity lists _extract_entities found in the command
SelectionEntities ==
    { [NoEntities EXCEPT !.files = f, !.urls = u, !.programs = p] :
        f \in { << >>, << "demo.txt" >>, << "notes.txt", "demo.txt" >> },
        u \in { << >>, << "https://example.com" >> },
        p \in { << >>, << "python" >>, << "python", "git" >> } }

SelectionUnderstandings ==
    { [command |-> "", intents |-> << [type |-> t, pattern |-> "", confidence |-> c,
                                       learned |-> (t = "unknown")] >>,
       entities |-> e, confidence |-> c] :
        t \in SelectionTypes, e \in SelectionEntities, c \in {ConfOne} }

SelectionInit ==
    /\ is_active = FALSE
    /\ energy_level = LevelOne
    /\ focus_level = LevelOne
    /\ learned_patterns = << >>
    /\ context_memory = << >>
    /\ short_term_memory = << >>
    /\ total_memories = 0
    /\ facts = FreshKnowledge.facts
    /\ knowledge_stats = FreshKnowledge.stats
    /\ concepts = FreshKnowledge.concepts
    /\ rules = FreshKnowledge.rules
    /\ patterns = FreshKnowledge.patterns
    /\ long_term_memory = << >>
    /\ memory_index = << >>
    /\ now = 0
    /\ disk = << >>
    /\ running_tasks = << >>
    /\ task_history = << >>
    /\ fs = << >>
    /\ pc = "idle"
    /\ \E understanding \in SelectionUnderstandings :
          cur = [command |-> "", understanding |-> understanding, tasks |-> << >>,
                 priority_order |-> << >>, kind |-> "understanding"]
    /\ idx = 0
    /\ results = << >>
    /\ in_flight = {}
    /\ invoked = {}
    /\ handler_calls = 0
    /\ returned = [call |-> "none"]
    /\ calls = 0
    /\ replay = [run |-> 1, script |-> << >>, replayed |-> 0, fs0 |-> fs]

\* CommandProcessor.detect_tasks(understanding)
DetectTasksCall ==
    /\ returned.call = "none"
    /\ calls' = calls + 1
    /\ returned' = [call |-> "detect_tasks", value |-> DetectTasks(cur.understanding)]
    /\ UNCHANGED << is_active, energy_level, focus_level, store_vars, processor_vars,
                    executor_vars, loop_vars, fs, pc, handler_calls >>

SelectionNext == DetectTasksCall /\ UNCHANGED replay

SelectionSpec == SelectionInit /\ [][SelectionNext]_vars

\* relevance is counted in 120ths: 120 is 1.0, 12 is 0.1
RelevanceOne == 120
\* consolidate_memories does nothing below this many short-term items
CONSOLIDATE_MIN == 50

\* the tasks and results a caller hands to MemoryManager.store_task_result
MemoryTasks == { CustomTask, task_templates.automation.setup_automation }
MemoryResults(task) ==
    IF task = CustomTask
    THEN { FailedResult(task, "No handler found for action: " \o task.action) }
    ELSE { SuccessResult(task, [message |-> "done"]) }
\* the commands of the interactions a caller hands to store_interaction
MemoryCommands == { "hello world" }
\* the queries a caller hands to search_memories
MemoryQueries == { "every task_result" }

\* MemoryManager._calculate_relevance at time ts, for a lower-case query;
\* the words of the memory are those of JsonHead
CalculateRelevance(memory, query, ts) ==
    LET query_words  == Range(Split(query))
        memory_words == Range(Split(Lower(JsonHead(memory))))
        overlap == IF memory_words # {}
                   THEN (60 * Cardinality(query_words \cap memory_words))
                           \div Cardinality(query_words)
                   ELSE 0
        kind    == IF Contains(query, memory.type) THEN 36 ELSE 0
        recency == Max(0, 24 - (ts - memory.timestamp))
    IN  Min(RelevanceOne, overlap + kind + recency)

\* the loop body of MemoryManager.search_memories on one memory
Accessed(memory, query, ts) ==
    LET score == CalculateRelevance(memory, Lower(query), ts)
    IN  IF score > 12
        THEN ("relevance_score" :> score) @@ [memory EXCEPT !.access_count = @ + 1]
        ELSE memory

\* the test of MemoryManager.consolidate_memories on one memory at time ts
Consolidates(memory, ts) ==
    \/ memory.importance > 5
    \/ memory.access_count > 2
    \/ memory.timestamp < ts - 1

\* long_term_memory[memory['id']] = memory for every memory of the list, in order
PutAll(ltm, memories) ==
    LET ids == { memories[i].id : i \in DOMAIN memories }
        last(id) == LET at == { i \in DOMAIN memories : memories[i].id = id }
                    IN  memories[CHOOSE i \in at : \A j \in at : j <= i]
    IN  [id \in DOMAIN ltm \cup ids |-> IF id \in ids THEN last(id) ELSE ltm[id]]

\* the short-term memory a caller has filled with n store_task_result calls
\* at time 0, having searched three times after the first ten
PrefillItem(i) ==
    LET task   == IF i % 3 = 2 THEN task_templates.automation.setup_automation
                  ELSE CustomTask
        result == IF i % 3 = 0 THEN FailedResult(task, "No handler found for action: " \o task.action)
                  ELSE SuccessResult(task, [message |-> "done"])
        item   == TaskResultItem(task, result, 0)
    IN  IF i <= 10
        THEN Accessed(Accessed(Accessed(item, "recall", 0), "recall", 0), "recall", 0)
        ELSE item
Prefill(n) == [i \in 1..n |-> PrefillItem(i)]
\* the index after _index_memory of every memory of the list, in order,
\* starting from an empty index
StoredIndex(memories) ==
    LET words(m) == LongWords(JsonHead(m))
    IN  [w \in UNION { words(memories[i]) : i \in DOMAIN memories } |->
            LET has(m) == w \in words(m)
                with == SelectSeq(memories, has)
            IN  [k \in 1..Len(with) |-> with[k].id]]
PrefillIndex(n) == StoredIndex(Prefill(n))
\* short of the consolidation threshold; at or short of the capacity
PrefillLens == { 0, CONSOLIDATE_MIN - 1, CONSOLIDATE_MIN }
FullPrefillLens == { STM_MAXLEN - 1, STM_MAXLEN }

\* number of MemoryManager calls, sleeps, restarts and hours in one behaviour
MaxMemoryCalls == 3
\* hours that pass in one behaviour
MaxHours == 2

StoreInit(lens) ==
    /\ is_active = FALSE
    /\ energy_level = LevelOne
    /\ focus_level = LevelOne
    /\ learned_patterns = << >>
    /\ context_memory = << >>
    /\ \E n \in lens :
          /\ short_term_memory = Prefill(n)
          /\ total_memories = n
          /\ memory_index = PrefillIndex(n)
    /\ facts = FreshKnowledge.facts
    /\ knowledge_stats = FreshKnowledge.stats
    /\ concepts = FreshKnowledge.concepts
    /\ rules = FreshKnowledge.rules
    /\ patterns = FreshKnowledge.patterns
    /\ long_term_memory = << >>
    /\ now = 0
    /\ disk = << >>
    /\ running_tasks = << >>
    /\ task_history = << >>
    /\ fs = << >>
    /\ pc = "idle"
    /\ cur = NoCall
    /\ idx = 0
    /\ results = << >>
    /\ in_flight = {}
    /\ invoked = {}
    /\ handler_calls = 0
    /\ returned = [call |-> "none"]
    /\ calls = 0
    /\ replay = [run |-> 1, script |-> << >>, replayed |-> 0, fs0 |-> fs]

MemoryInit == StoreInit(PrefillLens)

brain_vars == << is_active, energy_level, focus_level, processor_vars,
                executor_vars, loop_vars, fs, pc, handler_calls >>

\* MemoryManager.store_task_result
StoreTaskResultCall(task, result) ==
    /\ calls < MaxMemoryCalls
    /\ calls' = calls + 1
    /\ short_term_memory' = StoreTaskResult(short_term_memory, task, result, now)
    /\ memory_index' = IndexMemory(memory_index, TaskResultItem(task, result, now))
    /\ total_memories' = total_memories + 1
    /\ returned' = [call |-> "store_task_result"]
    /\ UNCHANGED << brain_vars, kb_vars, long_term_memory, now, disk >>

\* MemoryManager.store_interaction
StoreInteractionCall(command) ==
    /\ calls < MaxMemoryCalls
    /\ calls' = calls + 1
    /\ LET interaction == [command |-> command, timestamp |-> now]
       IN  /\ short_term_memory' = StoreInteraction(short_term_memory, interaction, now)
           /\ memory_index' = IndexMemory(memory_index, InteractionItem(interaction, now))
    /\ total_memories' = total_memories + 1
    /\ returned' = [call |-> "store_interaction"]
    /\ UNCHANGED << brain_vars, kb_vars, long_term_memory, now, disk >>

\* MemoryManager.search_memories with a query that has a word
SearchMemoriesCall(query) ==
    /\ calls < MaxMemoryCalls
    /\ calls' = calls + 1
    /\ LET accessed == [m \in Range(short_term_memory) |-> Accessed(m, query, now)]
       IN  short_term_memory' =
               [i \in DOMAIN short_term_memory |-> accessed[short_term_memory[i]]]
    /\ long_term_memory' =
           [id \in DOMAIN long_term_memory |-> Accessed(long_term_memory[id], query, now)]
    /\ returned' = [call |-> "search_memories"]
    /\ UNCHANGED << brain_vars, kb_vars, total_memories, memory_index, now, disk >>

\* MemoryManager.consolidate_memories
ConsolidateMemoriesCall ==
    /\ calls < MaxMemoryCalls
    /\ calls' = calls + 1
    /\ returned' = [call |-> "consolidate_memories"]
    /\ IF Len(short_term_memory) < CONSOLIDATE_MIN
       THEN UNCHANGED << short_term_memory, long_term_memory >>
       ELSE LET chosen(m) == Consolidates(m, now)
                memories_to_consolidate == SelectSeq(short_term_memory, chosen)
                consolidated == Range(memories_to_consolidate)
                kept(m) == m \notin consolidated
            IN  /\ long_term_memory' = PutAll(long_term_memory, memories_to_consolidate)
                /\ short_term_memory' = SelectSeq(short_term_memory, kept)
    /\ UNCHANGED << brain_vars, kb_vars, total_memories, memory_index, now, disk >>

\* an hour passes
Tick ==
    /\ now < MaxHours
    /\ calls < MaxMemoryCalls
    /\ calls' = calls + 1
    /\ now' = now + 1
    /\ UNCHANGED << brain_vars, kb_vars, short_term_memory, total_memories,
                    long_term_memory, memory_index, disk, returned >>

\* AIBrain() is constructed again over the same data directories
Restart ==
    /\ pc = "idle"
    /\ calls < MaxMemoryCalls
    /\ calls' = calls + 1
    /\ LET memory == LoadMemories(disk)
           kb == InitializeBasicKnowledge(LoadKnowledge(disk), now)
       IN  /\ long_term_memory' = memory.long_term_memory
           /\ memory_index' = memory.memory_index
           /\ total_memories' = memory.stats.total_memories
           /\ facts' = kb.facts
           /\ concepts' = kb.concepts
           /\ rules' = kb.rules
           /\ patterns' = kb.patterns
           /\ knowledge_stats' = kb.stats
    /\ short_term_memory' = << >>
    /\ is_active' = FALSE
    /\ energy_level' = LevelOne
    /\ focus_level' = LevelOne
    /\ learned_patterns' = << >>
    /\ context_memory' = << >>
    /\ running_tasks' = << >>
    /\ task_history' = << >>
    /\ returned' = [call |-> "restart"]
    /\ UNCHANGED << loop_vars, fs, pc, handler_calls, now, disk >>

\* AIBrain.sleep, counted
SleepCall ==
    /\ calls < MaxMemoryCalls
    /\ calls' = calls + 1
    /\ returned' = [call |-> "sleep"]
    /\ pc = "idle"
    /\ is_active' = FALSE
    /\ disk' = SaveKnowledge(
                   SaveMemory(disk, long_term_memory, memory_index, total_memories),
                   Knowledge)
    /\ UNCHANGED << energy_level, focus_level, short_term_memory, total_memories,
                    long_term_memory, memory_index, now, kb_vars, processor_vars,
                    executor_vars, loop_vars, fs, pc, handler_calls >>

MemoryNext ==
    \/ \E task \in MemoryTasks : \E result \in MemoryResults(task) :
          StoreTaskResultCall(task, result) /\ UNCHANGED replay
    \/ \E command \in MemoryCommands : StoreInteractionCall(command) /\ UNCHANGED replay
    \/ \E query \in MemoryQueries : SearchMemoriesCall(query) /\ UNCHANGED replay
    \/ ConsolidateMemoriesCall /\ UNCHANGED replay
    \/ Tick /\ UNCHANGED replay
    \/ SleepCall /\ UNCHANGED replay
    \/ Restart /\ UNCHANGED replay

MemorySpec == MemoryInit /\ [][MemoryNext]_vars


(***************************************************************************)
(* AIBrain.think and the searches of the two stores, for every prompt      *)
(***************************************************************************)

\* the prompts a caller hands to AIBrain.think, search_knowledge and
\* search_memories
ThinkPrompts == { "", "   ", "create a file", "Memory Management system" }

\* set(item[field].lower().split()) of a field the item has
FieldWords(item, field) ==
    IF field \in DOMAIN item THEN Range(Split(Lower(item[field]))) ELSE {}

\* the fields KnowledgeBase._calculate_knowledge_relevance looks at, with the
\* weight of each in 120ths
KnowledgeWeights == [content |-> 72, name |-> 48, definition |-> 36]

\* _calculate_knowledge_relevance evaluates  overlap / len(query_words)  for
\* each field of the item that has a word
KnowledgeDivides(item) ==
    \E field \in DOMAIN KnowledgeWeights : FieldWords(item, field) # {}

\* the sum of the weighted overlaps of _calculate_knowledge_relevance, before
\* the division by len(query_words)
KnowledgeOverlap(item, query_words) ==
    LET part(field) == KnowledgeWeights[field]
                          * Cardinality(query_words \cap FieldWords(item, field))
    IN  part("content") + part("name") + part("definition")

\* the category term of _calculate_knowledge_relevance
CategoryTerm(item, query) == IF Contains(query, Lower(item.category)) THEN 24 ELSE 0

\* KnowledgeBase._calculate_knowledge_relevance for a lower-case query that
\* has a word, or an item that has none
CalculateKnowledgeRelevance(item, query) ==
    LET query_words == Range(Split(query))
        overlap == IF KnowledgeDivides(item)
                   THEN KnowledgeOverlap(item, query_words) \div Cardinality(query_words)
                   ELSE 0
    IN  Min(RelevanceOne, overlap + CategoryTerm(item, query))

\* relevance > 0.1 in search_knowledge, compared before rounding
KnowledgeRelevant(item, query) ==
    LET query_words == Range(Split(query))
        n == Cardinality(query_words)
    IN  IF KnowledgeDivides(item)
        THEN KnowledgeOverlap(item, query_words) + n * CategoryTerm(item, query) > 12 * n
        ELSE CategoryTerm(item, query) > 12

\* the division of _calculate_knowledge_relevance raises ZeroDivisionError:
\* the query has no word and the item has one
KnowledgeRelevanceRaises(item, query) ==
    Range(Split(query)) = {} /\ KnowledgeDivides(item)

\* search_knowledge raises: its loops reach an item on which the division
\* raises (every item the model stores has a word, so the first one visited
\* raises and nothing was updated before it)
SearchKnowledgeRaises(fs_, cs, query) ==
    \/ \E id \in DOMAIN fs_ : KnowledgeRelevanceRaises(fs_[id], Lower(query))
    \/ \E id \in DOMAIN cs : KnowledgeRelevanceRaises(cs[id], Lower(query))

\* the loop body of search_knowledge on one fact
FactAccessed(fact, query, ts) ==
    IF KnowledgeRelevant(fact, Lower(query))
    THEN ("relevance_score" :> CalculateKnowledgeRelevance(fact, Lower(query)))
            @@ [fact EXCEPT !.access_count = @ + 1, !.last_accessed = ts]
    ELSE fact

\* the loop body of search_knowledge on one concept
ConceptAccessed(concept, query, ts) ==
    IF KnowledgeRelevant(concept, Lower(query))
    THEN [concept EXCEPT !.access_count = @ + 1, !.last_accessed = ts]
    ELSE concept

\* the entries of the list search_knowledge returns (the model holds fewer
\* items than the limit, and leaves the order of the list out)
SearchKnowledge(fs_, cs, query, ts) ==
    { [type |-> "fact", data |-> FactAccessed(fs_[id], query, ts),
       relevance_score |-> CalculateKnowledgeRelevance(fs_[id], Lower(query))] :
        id \in { i \in DOMAIN fs_ : KnowledgeRelevant(fs_[i], Lower(query)) } }
    \cup
    { [type |-> "concept", data |-> ConceptAccessed(cs[id], query, ts),
       relevance_score |-> CalculateKnowledgeRelevance(cs[id], Lower(query))] :
        id \in { i \in DOMAIN cs : KnowledgeRelevant(cs[i], Lower(query)) } }

\* the test of KnowledgeBase._find_applicable_rules on one rule
RuleApplies(rule, prompt) ==
    \E word \in Range(Split(Lower(rule.condition))) : Contains(Lower(prompt), word)

\* the rules after _find_applicable_rules
RulesUsed(rs, prompt) ==
    [i \in DOMAIN rs |->
        IF RuleApplies(rs[i], prompt) THEN [rs[i] EXCEPT !.usage_count = @ + 1]
        ELSE rs[i]]

\* KnowledgeBase._generate_insights
GenerateInsights(prompt) ==
    LET has(word) == Contains(Lower(prompt), word)
    IN  (IF has("file")
         THEN << "File operations are common tasks that I can help with" >> ELSE << >>)
        \o (IF has("search") \/ has("find")
            THEN << "I can perform web searches to find information" >> ELSE << >>)
        \o (IF has("install")
            THEN << "I can install packages and software for you" >> ELSE << >>)
        \o (IF has("system") \/ has("computer")
            THEN << "I can check system status and monitor your computer" >>
            ELSE << >>)

\* the thoughts KnowledgeBase.think_about returns: those of the knowledge
\* found, those of the applicable rules in order, and the insights
ThinkAbout(fs_, cs, rs, prompt, ts) ==
    [knowledge |->
        { IF item.type = "fact" THEN "Fact: " \o item.data.content
          ELSE "Concept: " \o item.data.name \o " - " \o item.data.definition :
            item \in SearchKnowledge(fs_, cs, prompt, ts) },
     rules |->
        LET applies(rule) == RuleApplies(rule, prompt)
            applicable == SelectSeq(rs, applies)
        IN  [i \in DOMAIN applicable |->
                "Rule: If " \o applicable[i].condition \o ", then "
                    \o applicable[i].action],
     insights |-> GenerateInsights(prompt)]

\* the division of MemoryManager._calculate_relevance raises
\* ZeroDivisionError: the query has no word and the memory's text has one
RelevanceRaises(memory, query) ==
    Range(Split(query)) = {} /\ Range(Split(Lower(JsonHead(memory)))) # {}

\* search_memories raises on the first memory it visits
SearchMemoriesRaises(stm, ltm, query) ==
    \/ \E i \in DOMAIN stm : RelevanceRaises(stm[i], Lower(query))
    \/ \E id \in DOMAIN ltm : RelevanceRaises(ltm[id], Lower(query))

\* the memories search_memories finds
RelevantMemories(stm, ltm, query, ts) ==
    { m \in Range(stm) \cup Range(ltm) : CalculateRelevance(m, Lower(query), ts) > 12 }

\* what a call that raised leaves to its caller
Raised(call, error) == [call |-> call, raised |-> TRUE, error |-> error]
\* what a call that returned leaves to its caller
Returned(call, value) == [call |-> call, raised |-> FALSE, value |-> value]

\* KnowledgeBase.search_knowledge(query)
SearchKnowledgeCall(query) ==
    /\ calls < MaxMemoryCalls
    /\ calls' = calls + 1
    /\ IF SearchKnowledgeRaises(facts, concepts, query)
       THEN /\ returned' = Raised("search_knowledge", "ZeroDivisionError")
            /\ UNCHANGED << facts, concepts >>
       ELSE /\ returned' = Returned("search_knowledge",
                                    SearchKnowledge(facts, concepts, query, now))
            /\ facts' = [id \in DOMAIN facts |-> FactAccessed(facts[id], query, now)]
            /\ concepts' =
                   [id \in DOMAIN concepts |-> ConceptAccessed(concepts[id], query, now)]
    /\ UNCHANGED << brain_vars, short_term_memory, total_memories, long_term_memory,
                    memory_index, knowledge_stats, rules, patterns, now, disk >>

\* MemoryManager.search_memories(query), for every query
SearchMemoriesOf(query) ==
    /\ calls < MaxMemoryCalls
    /\ calls' = calls + 1
    /\ IF SearchMemoriesRaises(short_term_memory, long_term_memory, query)
       THEN /\ returned' = Raised("search_memories", "ZeroDivisionError")
            /\ UNCHANGED << short_term_memory, long_term_memory >>
       ELSE /\ returned' =
                   Returned("search_memories",
                            { m.id : m \in RelevantMemories(short_term_memory,
                                                            long_term_memory, query, now) })
            /\ LET accessed == [m \in Range(short_term_memory) |-> Accessed(m, query, now)]
               IN  short_term_memory' =
                       [i \in DOMAIN short_term_memory |-> accessed[short_term_memory[i]]]
            /\ long_term_memory' =
                   [id \in DOMAIN long_term_memory |->
                       Accessed(long_term_memory[id], query, now)]
    /\ UNCHANGED << brain_vars, kb_vars, total_memories, memory_index, now, disk >>

\* AIBrain.think(prompt): think_about, then search_memories, then
\* synthesize_thoughts; no memory has a 'summary', so each of the first
\* three found adds the line "Past experience"
Think(prompt) ==
    /\ calls < MaxMemoryCalls
    /\ calls' = calls + 1
    /\ IF SearchKnowledgeRaises(facts, concepts, prompt)
       THEN /\ returned' = Raised("think", "ZeroDivisionError")
            /\ UNCHANGED << facts, concepts, rules, short_term_memory, long_term_memory >>
       ELSE /\ facts' = [id \in DOMAIN facts |-> FactAccessed(facts[id], prompt, now)]
            /\ concepts' =
                   [id \in DOMAIN concepts |-> ConceptAccessed(concepts[id], prompt, now)]
            /\ rules' = RulesUsed(rules, prompt)
            /\ IF SearchMemoriesRaises(short_term_memory, long_term_memory, prompt)
               THEN /\ returned' = Raised("think", "ZeroDivisionError")
                    /\ UNCHANGED << short_term_memory, long_term_memory >>
               ELSE /\ returned' =
                           Returned("think",
                               [thoughts |-> ThinkAbout(facts, concepts, rules, prompt, now),
                                experiences |->
                                    Min(3, Cardinality(RelevantMemories(
                                               short_term_memory, long_term_memory,
                                               prompt, now)))])
                    /\ LET accessed ==
                               [m \in Range(short_term_memory) |-> Accessed(m, prompt, now)]
                       IN  short_term_memory' =
                               [i \in DOMAIN short_term_memory |->
                                   accessed[short_term_memory[i]]]
                    /\ long_term_memory' =
                           [id \in DOMAIN long_term_memory |->
                               Accessed(long_term_memory[id], prompt, now)]
    /\ UNCHANGED << brain_vars, knowledge_stats, patterns, total_memories,
                    memory_index, now, disk >>

ThinkInit == StoreInit({0})

ThinkNext ==
    \/ \E task \in MemoryTasks : \E result \in MemoryResults(task) :
          StoreTaskResultCall(task, result) /\ UNCHANGED replay
    \/ \E command \in MemoryCommands : StoreInteractionCall(command) /\ UNCHANGED replay
    \/ \E query \in ThinkPrompts : SearchKnowledgeCall(query) /\ UNCHANGED replay
    \/ \E query \in ThinkPrompts : SearchMemoriesOf(query) /\ UNCHANGED replay
    \/ \E prompt \in ThinkPrompts : Think(prompt) /\ UNCHANGED replay
    \/ Tick /\ UNCHANGED replay

ThinkSpec == ThinkInit /\ [][ThinkNext]_vars

\* the stores and the consolidation on a short-term memory that is full or
\* one short of full
CapacityInit == StoreInit(FullPrefillLens)

CapacityNext ==
    \/ \E task \in MemoryTasks : \E result \in MemoryResults(task) :
          StoreTaskResultCall(task, result) /\ UNCHANGED replay
    \/ \E command \in MemoryCommands : StoreInteractionCall(command) /\ UNCHANGED replay
    \/ ConsolidateMemoriesCall /\ UNCHANGED replay

CapacitySpec == CapacityInit /\ [][CapacityNext]_vars
(***************************************************************************)
(* Properties                                                              *)
(***************************************************************************)
Priority(t) == Get(t, "priority", 0)
NonParallel(t) == ~Get(t, "can_parallel", TRUE)

\* C1: at every instant at most max_concurrent_tasks tasks are running and
\* no two tasks with can_parallel = false are running, both for the handlers
\* that are executing and for the executor's registry of running tasks.
C1_ConcurrencyCap ==
    /\ Cardinality(in_flight) <= max_concurrent_tasks
    /\ Cardinality({ i \in in_flight : NonParallel(cur.priority_order[i]) }) <= 1
    /\ Cardinality(DOMAIN running_tasks) <= max_concurrent_tasks
    /\ Cardinality({ id \in DOMAIN running_tasks : NonParallel(running_tasks[id]) }) <= 1

\* the handler of the sixth task of a plan of non-parallel tasks is executing
C1_Witness ==
    /\ pc = "executing"
    /\ Len(cur.priority_order) > max_concurrent_tasks
    /\ in_flight = {max_concurrent_tasks + 1}
    /\ NonParallel(cur.priority_order[max_concurrent_tasks + 1])

\* C2: when a plan of more than max_concurrent_tasks tasks, all non-parallel,
\* has been executed, the results from position max_concurrent_tasks + 1 on
\* are failed results with the 'system constraints' error and the handlers
\* of those tasks were not invoked.
C2_LongPlanRejected ==
    (/\ returned.call = "execute_tasks"
     /\ Len(returned.plan) > max_concurrent_tasks
     /\ \A k \in 1..Len(returned.plan) : NonParallel(returned.plan[k]))
    => \A k \in (max_concurrent_tasks + 1)..Len(returned.plan) :
          /\ ~returned.value[k].success
          /\ returned.value[k].error = Some(ConstraintError)
          /\ k \notin returned.invoked

\* a step is a call of process_command
IsProcessCommandStep == calls' = calls + 1 /\ cur'.kind # "plan"

\* C3: a process_command call on a brain that is not active returns the
\* top-level error at once and changes neither the memory store, the
\* knowledge store, the learned patterns, the command history, the
\* telemetry nor the number of handler invocations.
C3_InactiveRejected ==
    [][ (~is_active /\ IsProcessCommandStep) =>
          /\ pc' = "idle"
          /\ returned' = [call |-> "process_command", value |-> [error |-> NotActiveError]]
          /\ UNCHANGED << store_vars,
                          learned_patterns, context_memory, energy_level, focus_level,
                          handler_calls, task_history, fs >> ]_vars

\* a command was rejected on a brain that had been active, worked and slept
C3_Witness ==
    /\ ~is_active
    /\ returned.call = "process_command"
    /\ DOMAIN returned.value = {"error"}
    /\ Len(short_term_memory) > 0

\* the response of a process_command call that found the brain active
ActiveResponse == returned.call = "process_command" /\ "command" \in DOMAIN returned.value

ResultIsOf(r, t) ==
    IF "task" \in DOMAIN r THEN r.task = t
    ELSE r.task_name = t.name /\ r.action = t.action

\* C6: executing a plan yields exactly one result per task, in priority
\* order, and every task that has a handler is dispatched, whatever the
\* tasks before it did.
C6_OneResultPerTask ==
    (returned.call \in {"execute_tasks", "process_command"} /\ "plan" \in DOMAIN returned)
    => LET rs == IF returned.call = "execute_tasks" THEN returned.value
                 ELSE IF returned.value.success THEN returned.value.results ELSE << >>
       IN  /\ Len(rs) = Len(returned.plan)
           /\ \A k \in 1..Len(rs) : ResultIsOf(rs[k], returned.plan[k])
           /\ \A k \in 1..Len(returned.plan) :
                 ("action" \in DOMAIN returned.plan[k]
                    /\ "name" \in DOMAIN returned.plan[k]
                    /\ returned.plan[k].action \in task_handlers)
                 => k \in returned.invoked

\* a plan whose first task failed and whose later task was dispatched
C6_Witness ==
    /\ returned.call \in {"execute_tasks", "process_command"}
    /\ "plan" \in DOMAIN returned
    /\ Len(returned.plan) >= 2
    /\ LET rs == IF returned.call = "execute_tasks" THEN returned.value
                 ELSE returned.value.results
       IN  ~rs[1].success /\ Len(returned.plan) \in returned.invoked

\* the elements of q that have priority p, in their order in q
RECURSIVE WithPriority(_, _)
WithPriority(q, p) ==
    IF Len(q) = 0 THEN << >>
    ELSE (IF Priority(Head(q)) = p THEN << Head(q) >> ELSE << >>)
         \o WithPriority(Tail(q), p)

\* out is a permutation of in, descending by priority, and the elements of
\* equal priority are in the order they have in in
IsStableSortOf(out, in) ==
    /\ Len(out) = Len(in)
    /\ \A i, j \in 1..Len(out) : i < j => Priority(out[i]) >= Priority(out[j])
    /\ \A p \in { Priority(in[k]) : k \in 1..Len(in) } \cup { Priority(out[k]) : k \in 1..Len(out) } :
          WithPriority(out, p) = WithPriority(in, p)

\* C7: the priority-ordered list of a plan is the input task list sorted by
\* priority descending with ties in input order, and so is the list
\* detect_tasks returns with respect to the detection order.
C7_StablePriorityOrder ==
    pc = "executing" =>
        /\ IsStableSortOf(cur.priority_order, cur.tasks)
        /\ cur.kind = "command" =>
              IsStableSortOf(cur.tasks, TasksOfIntents(cur.understanding, 1))

\* a command whose tasks were reordered and hold two different tasks of
\* equal priority
C7_Witness ==
    /\ pc = "executing"
    /\ cur.kind = "command"
    /\ cur.tasks # TasksOfIntents(cur.understanding, 1)
    /\ \E i, j \in 1..Len(cur.tasks) :
          /\ i < j
          /\ Priority(cur.tasks[i]) = Priority(cur.tasks[j])
          /\ cur.tasks[i].action # cur.tasks[j].action

\* C8: detect_tasks yields exactly one task per distinct detected intent
\* category that has a template catalog.
C8_OneTaskPerCategory ==
    (pc = "executing" /\ cur.kind = "command") =>
        \A cat \in DOMAIN task_templates :
            (\E k \in 1..Len(cur.understanding.intents) :
                 cur.understanding.intents[k].type = cat)
            => Cardinality({ k \in 1..Len(cur.tasks) : cur.tasks[k].intent.type = cat }) = 1

\* C9: on a fresh active brain "create a new file called demo.txt" yields one
\* intent, of category file_operations, and one task, a file_creation with
\* file entities [demo.txt], whose result is successful with a message that
\* contains the file name and "created".
C9_CreateNamedFile ==
    (/\ ActiveResponse
     /\ calls = 1
     /\ returned.value.command = "create a new file called demo.txt")
    => /\ Len(returned.value.understanding.intents) = 1
       /\ returned.value.understanding.intents[1].type = "file_operations"
       /\ Len(returned.value.tasks) = 1
       /\ returned.value.tasks[1].action = "file_creation"
       /\ returned.value.tasks[1].entities.files = << "demo.txt" >>
       /\ Len(returned.value.results) = 1
       /\ returned.value.results[1].success
       /\ Contains(returned.value.results[1].output[1].message, "demo.txt")
       /\ Contains(returned.value.results[1].output[1].message, "created")

\* C10: "search for machine learning basics" yields a web_search task whose
\* handler output has search_query "machine learning basics" and the search
\* URL built from that query.
C10_SearchQueryIsTheTerms ==
    (/\ ActiveResponse
     /\ returned.value.command = "search for machine learning basics")
    => /\ \E k \in 1..Len(returned.value.tasks) :
             returned.value.tasks[k].action = "web_search"
       /\ \A k \in 1..Len(returned.value.results) :
             (returned.value.results[k].action = "web_search"
                /\ returned.value.results[k].success)
             => /\ returned.value.results[k].output[1].search_query
                      = "machine learning basics"
                /\ returned.value.results[k].output[1].search_url
                      = "https://www.google.com/search?q=machine+learning+basics"

\* C12: every confidence the pipeline produces lies in [0,1]: that of each
\* detected intent, that of the understanding and that of each task.
C12_ConfidenceInUnitInterval ==
    (pc = "executing" /\ cur.kind = "command") =>
        /\ \A k \in 1..Len(cur.understanding.intents) :
              cur.understanding.intents[k].confidence \in 0..ConfOne
        /\ cur.understanding.confidence \in 0..ConfOne
        /\ \A k \in 1..Len(cur.tasks) : cur.tasks[k].confidence \in 0..ConfOne

\* a step that stores one memory
IsStoreStep ==
    /\ calls' = calls + 1
    /\ returned'.call \in {"store_task_result", "store_interaction"}

\* C11: after any sequence of store_interaction, store_task_result and
\* consolidate_memories calls the short-term memory holds at most STM_MAXLEN
\* items, and a store into a full short-term memory evicts the oldest item:
\* the others move up one place and the new item is the last.
C11_ShortTermCapacity ==
    /\ [](Len(short_term_memory) <= STM_MAXLEN)
    /\ [][ (IsStoreStep /\ Len(short_term_memory) = STM_MAXLEN) =>
             /\ Len(short_term_memory') = STM_MAXLEN
             /\ \A i \in 1..(STM_MAXLEN - 1) :
                   short_term_memory'[i] = short_term_memory[i + 1]
             /\ short_term_memory'[STM_MAXLEN].timestamp = now ]_vars

\* a store into a full short-term memory has happened
C11_Witness ==
    /\ returned.call \in {"store_task_result", "store_interaction"}
    /\ total_memories > STM_MAXLEN
    /\ Len(short_term_memory) = STM_MAXLEN

\* a step that is a call of consolidate_memories
IsConsolidateStep ==
    /\ calls' = calls + 1
    /\ returned'.call = "consolidate_memories"

\* C20: after consolidate_memories every short-term item with importance
\* above 0.5, access count above 2 or age above one hour is in long-term
\* memory and no longer in short-term memory, every other short-term item
\* is still in short-term memory, and no item is lost.
C20_ConsolidationMovesItems ==
    [][ IsConsolidateStep =>
          \A i \in DOMAIN short_term_memory :
              LET m == short_term_memory[i]
              IN  IF Consolidates(m, now)
                  THEN /\ m \in Range(long_term_memory')
                       /\ m \notin Range(short_term_memory')
                  ELSE m \in Range(short_term_memory') ]_vars

(***************************************************************************)
(* C13: every action named by a template of the catalog has a registered   *)
(* handler, and no result of a task the command pipeline created carries   *)
(* the error "No handler found for action: ...".                           *)
(***************************************************************************)
TemplateActions ==
    UNION { { task_templates[c][k].action : k \in DOMAIN task_templates[c] } :
              c \in DOMAIN task_templates }

IsNoHandlerResult(r) ==
    /\ "action" \in DOMAIN r
    /\ r.error = Some("No handler found for action: " \o r.action)

C13_TemplateActionsHaveHandlers ==
    /\ TemplateActions \subseteq task_handlers
    /\ cur.kind = "command" =>
           \A k \in 1..Len(results) : ~IsNoHandlerResult(results[k])

\* a command whose task was dispatched to the email handler and has a result
C13_Witness ==
    /\ cur.kind = "command"
    /\ \E k \in 1..Len(results) :
          /\ "action" \in DOMAIN results[k]
          /\ results[k].action = "email_sending"
          /\ k \in invoked


(***************************************************************************)
(* C14: every response of process_command, whatever the state of the brain *)
(* at the call, carries the success flag: it is TRUE together with the     *)
(* echoed command, the understanding, the tasks and the results, or FALSE  *)
(* together with an error.                                                 *)
(***************************************************************************)
C14_ResponseHasSuccessFlag ==
    returned.call = "process_command" =>
        LET response == returned.value
        IN  /\ "success" \in DOMAIN response
            /\ IF response.success
               THEN {"command", "understanding", "tasks", "results"}
                        \subseteq DOMAIN response
               ELSE "error" \in DOMAIN response


(***************************************************************************)
(* C15: every result execute_task returns, successful or failed, is        *)
(* appended to the task history, which keeps the most recent results in    *)
(* order and at most 1000 of them, dropping the oldest first.              *)
(***************************************************************************)
\* execute_task returned: the loop of execute_tasks appended its result (the
\* entry the loop builds itself when the call raised has no task_name)
ExecuteTaskReturned ==
    /\ Len(results') = Len(results) + 1
    /\ "task_name" \in DOMAIN results'[Len(results')]

C15_ResultsEnterHistory ==
    /\ [](Len(task_history) <= HISTORY_MAX)
    /\ [][ ExecuteTaskReturned =>
             LET r == results'[Len(results')]
             IN  task_history' =
                     IF Len(task_history) < HISTORY_MAX
                     THEN Append(task_history, r)
                     ELSE Append(Tail(task_history), r) ]_vars


(***************************************************************************)
(* C16: what save_memory and save_knowledge write is read back by          *)
(* _load_memories and _load_knowledge as tables with the same keys and the *)
(* same values: the facts, concepts, rules and pattern index of the        *)
(* knowledge base, the long-term memory map and the memory search index.   *)
(***************************************************************************)
IsSaveStep == calls' = calls + 1 /\ returned'.call = "sleep"

SelectionTable(category, entities) ==
    CASE category = "file_operations" ->
            IF entities.files # << >> THEN "Open File" ELSE "Create File"
      [] category = "web_operations" ->
            IF entities.urls # << >> THEN "Open Website" ELSE "Web Search"
      [] category = "system_operations" ->
            IF entities.programs # << >> THEN "Run Program" ELSE "System Check"
      [] category = "data_operations" -> "Analyze Data"
      [] category = "communication" -> "Send Email"
      [] category = "information_gathering" -> "Search Information"
      [] category = "automation" -> "Create Reminder"
      [] OTHER -> "no task"

IsWakeUpStep ==
    /\ ~is_active \/ energy_level # LevelOne \/ focus_level # LevelOne
    /\ is_active' /\ energy_level' = LevelOne /\ focus_level' = LevelOne
    /\ UNCHANGED << pc, calls, results >>

CanTake(input) ==
    CASE input.kind = "wake_up" -> pc = "idle"
      [] input.kind \in {"process_command", "execute_tasks"} ->
            pc = "idle" /\ calls < MaxCalls
      [] input.kind = "start_task" ->
            /\ pc = "executing"
            /\ ~LoopDone(idx, cur.priority_order, results)
            /\ CallBlocks(in_flight)
      [] input.kind = "finish_task" ->
            /\ pc = "executing"
            /\ input.i \in in_flight
            /\ input.env \in EnvChoices(cur.priority_order[input.i], fs)
      [] input.kind = "finish_call" ->
            /\ pc = "executing"
            /\ LoopDone(idx, cur.priority_order, results)
            /\ in_flight = {}

(***************************************************************************)
(* C19: energy and focus are advisory. A second brain that starts with     *)
(* other energy and focus levels and is given the same calls can take      *)
(* every call the first one took, and after each call it shows what the    *)
(* first one showed: the same tasks and plan, the same tasks dispatched to *)
(* their handlers, the same results and the same response.                 *)
(***************************************************************************)
C19_TelemetryIsAdvisory ==
    replay.run = 2 =>
        /\ replay.replayed > 0 =>
               Observed = replay.script[replay.replayed].observed
        /\ replay.replayed < Len(replay.script) => CanTake(Scripted)

\* the second brain started with no energy, and the task of a plan was
\* dispatched to its handler and succeeded as it did for the first brain
C19_Witness ==
    /\ replay.run = 2
    /\ replay.replayed = Len(replay.script)
    /\ energy_level = 2
    /\ returned.call = "execute_tasks"
    /\ returned.invoked # {}
    /\ returned.value[1].success
    /\ returned = replay.script[replay.replayed].observed.returned



\* the intents of a list that the learned entry of a key contributed
LearnedFor(intents, key) ==
    { i \in 1..Len(intents) : intents[i].learned /\ intents[i].pattern = key }

(***************************************************************************)
(* C21: the learned-pattern table changes only when a command returns,     *)
(* after every task of its plan has a result, and the command was          *)
(* classified with the table as it was before its own entry was written;   *)
(* a command classified later whose text contains the key of an entry of   *)
(* the table gets exactly one intent for that key, of the entry's category *)
(* and tagged as learned.                                                  *)
(***************************************************************************)
C21_LearnAfterExecution ==
    [][ /\ learned_patterns' # learned_patterns =>
              /\ pc = "executing" /\ pc' = "idle" /\ cur.kind = "command"
              /\ Len(results) = Len(cur.priority_order)
              /\ cur.understanding.intents =
                     DetectIntents(cur.understanding.normalized_command, learned_patterns)
              /\ returned'.call = "process_command"
              /\ returned'.value.understanding = cur.understanding
        /\ (IsProcessCommandStep /\ pc' = "executing") =>
              \A k \in 1..Len(learned_patterns) :
                  Contains(cur'.command, learned_patterns[k].key) =>
                      /\ Cardinality(LearnedFor(cur'.understanding.intents,
                                                learned_patterns[k].key)) = 1
                      /\ \A i \in LearnedFor(cur'.understanding.intents,
                                             learned_patterns[k].key) :
                             cur'.understanding.intents[i].type = learned_patterns[k].type
      ]_vars

\* 'create a new file' is being processed after 'create a new file called
\* demo.txt' was learned under 'create a': its classification has the learned
\* intent of the category of the first command
C21_Witness ==
    /\ pc = "executing"
    /\ cur.kind = "command"
    /\ cur.command = "create a new file"
    /\ context_memory = << "create a new file called demo.txt" >>
    /\ Len(learned_patterns) = 1
    /\ learned_patterns[1].key = "create a"
    /\ learned_patterns[1].type = "file_operations"
    /\ LearnedFor(cur.understanding.intents, "create a") # {}


(***************************************************************************)
(* C22: every call of execute_tasks returns: a plan that is being executed *)
(* is eventually finished, whatever the network and the child processes    *)
(* do, because each handler that waits for them gives up when its time is  *)
(* up.                                                                     *)
(***************************************************************************)
C22_PlanTerminates == (pc = "executing") ~> (pc = "idle")


(***************************************************************************)
(* C23: a task that ends in a failed result has changed no file: after the *)
(* step that appends a failed result to the results of the plan, every     *)
(* file is absent or has the content it had before the step.               *)
(***************************************************************************)
C23_FailureLeavesNoArtifact ==
    [][ (Len(results') = Len(results) + 1 /\ ~results'[Len(results')].success) =>
            fs' = fs ]_vars


(***************************************************************************)
(* C24: the executor's registry of running tasks is empty in every state,  *)
(* so the admission check refuses no task: no result carries the 'system   *)
(* constraints' error, and every task of a plan that has a name and an     *)
(* action with a handler, once the loop has passed it, was handed to its   *)
(* handler.                                                                *)
(***************************************************************************)
C24_RegistryAlwaysEmpty ==
    /\ DOMAIN running_tasks = {}
    /\ \A k \in 1..Len(results) : results[k].error # Some(ConstraintError)
    /\ pc = "executing" =>
          \A i \in 1..(idx - 1) :
              LET task == cur.priority_order[i]
              IN  ({"name", "action"} \subseteq DOMAIN task
                   /\ task.action \in task_handlers) => i \in invoked

\* more tasks than max_concurrent_tasks, none of which may run in parallel,
\* have been handed to their handlers in one plan
C24_Witness ==
    /\ pc = "executing"
    /\ Cardinality(invoked) > max_concurrent_tasks
    /\ \A i \in invoked : NonParallel(cur.priority_order[i])
    /\ DOMAIN running_tasks = {}


\* the actions of the tasks detect_tasks can select, and the other actions
\* that have a handler
SelectableActions ==
    {"file_creation", "file_opening", "web_search", "website_opening",
     "program_execution", "system_monitoring", "data_analysis", "email_sending",
     "information_search", "reminder_creation"}
UnselectableActions ==
    {"file_deletion", "file_download", "package_installation", "data_conversion",
     "data_backup", "meeting_scheduling", "topic_explanation", "automation_setup"}

HeldIds ==
    { short_term_memory[i].id : i \in DOMAIN short_term_memory }
        \cup DOMAIN long_term_memory

(***************************************************************************)
(* C26: nothing recorded is lost across sleep and restart: every item the  *)
(* memory store holds when the brain has gone to sleep is held by the      *)
(* memory store of the brain constructed next.                             *)
(***************************************************************************)
C26_NothingLostAcrossRestart ==
    [][ (returned.call = "sleep" /\ returned'.call = "restart") =>
            HeldIds \subseteq HeldIds' ]_vars


\* the ids of the rules of a list, in order
RuleIds(rs) == [k \in DOMAIN rs |-> rs[k].id]

(***************************************************************************)
(* C27: a knowledge base constructed from what sleep saved, with no call   *)
(* in between, holds the facts, the concepts and the rules that were       *)
(* saved: the same fact ids, the same concept ids and the same list of     *)
(* rules, none added and none twice.                                       *)
(***************************************************************************)
C27_RestartKeepsKnowledge ==
    [][ (returned.call = "sleep" /\ returned'.call = "restart") =>
            /\ DOMAIN facts' = DOMAIN facts
            /\ DOMAIN concepts' = DOMAIN concepts
            /\ RuleIds(rules') = RuleIds(rules) ]_vars


(***************************************************************************)
(* C28: the search index of the memory store has no dangling entry: every  *)
(* memory id listed under a word of the index is the id of an item held in *)
(* short-term or long-term memory.                                         *)
(***************************************************************************)
C28_IndexRefersToHeldItems ==
    \A w \in DOMAIN memory_index :
        \A k \in DOMAIN memory_index[w] : memory_index[w][k] \in HeldIds

(***************************************************************************)
(* C29: get_item_count(), the sum of the three counters of the knowledge   *)
(* statistics, is the number of items the knowledge store holds: its       *)
(* facts, its concepts and its rules.                                      *)
(***************************************************************************)
C29_ItemCountIsHeldItems ==
    knowledge_stats.total_facts + knowledge_stats.total_concepts
            + knowledge_stats.total_rules
        = Cardinality(DOMAIN facts) + Cardinality(DOMAIN concepts) + Len(rules)


(***************************************************************************)
(* C30: AIBrain.think, KnowledgeBase.search_knowledge and                  *)
(* MemoryManager.search_memories return a result, possibly empty, for      *)
(* every prompt, the empty and the blank one included: none of them        *)
(* raises an error.                                                        *)
(***************************************************************************)
C30_EveryPromptAnswered ==
    returned.call \in {"think", "search_knowledge", "search_memories"}
        => ~returned.raised

====
